------------------------------ MODULE Advisory ------------------------------
(***************************************************************************)
(* llm/: the advisory pass over the exceptions of a finished run           *)
(* (enrich_run_result) and the question the Streamlit app may ask about    *)
(* them afterwards (answer_question), with a provider behind both.         *)
(*                                                                         *)
(* Every job is one call of LLMAdapter.complete, which sends the provider  *)
(* up to 1 + MaxRetries requests.  One step is one request and its reply,  *)
(* or a job that sends none.  A reply can be anything.                     *)
(***************************************************************************)
EXTENDS Integers, Sequences, FiniteSets

CONSTANT RunLengths   \* the numbers of exceptions a run may have

ASSUME AdvisoryAssumption == RunLengths \subseteq Nat

VARIABLES
  keys,        \* the API keys in the environment of the process
  kinds,       \* the exceptions of the run, see Kinds
  detail,      \* per exception the annotations in its detail dict
  exc, job,    \* where the pass is; job is "query" for a question
  failures,    \* failed attempts of the current call of complete
  status,      \* "enriching", "done", "asking" or "raised"
  error,       \* the reply no except clause caught
  sent         \* the jobs of each exception the provider was sent a prompt of

vars == <<keys, kinds, detail, exc, job, failures, status, error, sent>>

-----------------------------------------------------------------------------
(* The provider                                                            *)

MaxRetries == 1

Provider ==
  IF "ANTHROPIC_API_KEY" \in keys THEN "anthropic"
  ELSE IF "NVIDIA_API_KEY" \in keys THEN "nvidia" ELSE "null"

\* "malformed" fails json.loads or the schema; "unavailable" is an APIError of the
\* client; "empty" has no content, on which json.loads (or the join of the text
\* blocks) raises a TypeError.
BadReplies == {"malformed", "unavailable", "empty"}

\* What the except clause of complete names: the one for Anthropic no error of the
\* client.
Caught == IF Provider = "nvidia" THEN {"malformed", "unavailable"} ELSE {"malformed"}

-----------------------------------------------------------------------------
(* The jobs                                                                *)

Classification == "llm_narration_classification"
RootCause == "llm_root_cause"
Draft == "llm_adjustment_draft"
Jobs == {Classification, RootCause, Draft}

\* The narration of the bank row an exception is about: "absent" where there is
\* none, "with_utr" where extract_utr finds a UTR, "suspicious" where one of
\* _SUSPICIOUS_PATTERNS occurs.
Kinds == {"absent", "with_utr", "plain", "suspicious"}

\* looks_fallback: a confidence of 0.0, or a memo with "fallback" in it.
Annotation == [by : {"model", "fallback"}, looks_fallback : BOOLEAN]

\* Mutant: a fallback without the marks of one.
FallbackUnmarked == [by |-> "fallback", looks_fallback |-> FALSE]

Fallback == [by |-> "fallback", looks_fallback |-> TRUE]
FromModel(looks) == [by |-> "model", looks_fallback |-> looks]

Skipped == job = Classification /\ kinds[exc] \in {"absent", "with_utr"}

\* complete is not called, or is NullAdapter's.
Silent == Provider = "null" \/ (job = Classification /\ kinds[exc] = "suspicious")

-----------------------------------------------------------------------------
NextJob(j) ==
  CASE j = Classification -> RootCause [] j = RootCause -> Draft [] j = Draft -> Classification

\* The loop of enrich_run_result goes on.
Continue ==
  LET next == IF job = Draft THEN exc + 1 ELSE exc
  IN  /\ job' = NextJob(job)
      /\ exc' = next
      /\ status' = IF next > Len(kinds) THEN "done" ELSE "enriching"
      /\ failures' = 0

With(f, x, value) == [y \in DOMAIN f \cup {x} |-> IF y = x THEN value ELSE f[y]]

Annotate(annotation) ==
  /\ Continue
  /\ detail' = [detail EXCEPT ![exc] = With(detail[exc], job, annotation)]

\* answer_question shows a text, with the ids among its citations that the run has.
Answer ==
  /\ status' = "done" /\ failures' = 0
  /\ UNCHANGED <<detail, exc, job>>

\* What a job does when complete returns None.
FallBack == IF status = "asking" THEN Answer ELSE Annotate(Fallback)

\* What a job does with a validated response: a draft must keep to the chart of
\* accounts.
Use(looks, in_chart) ==
  IF status = "asking" THEN Answer
  ELSE Annotate(IF job = Draft /\ ~in_chart THEN Fallback ELSE FromModel(looks))

-----------------------------------------------------------------------------
Init ==
  /\ keys \in SUBSET {"ANTHROPIC_API_KEY", "NVIDIA_API_KEY"}
  /\ kinds \in UNION {[1..n -> Kinds] : n \in RunLengths}
  /\ detail = [e \in DOMAIN kinds |-> <<>>]
  /\ exc = 1 /\ job = Classification /\ failures = 0
  /\ status = IF kinds = <<>> THEN "done" ELSE "enriching"
  /\ error = "none"
  /\ sent = [e \in DOMAIN kinds |-> {}]

\* Mutant: a narration with a UTR skips the exception, not the job.
SkipException ==
  /\ status = "enriching" /\ Skipped
  /\ exc' = exc + 1
  /\ status' = IF exc' > Len(kinds) THEN "done" ELSE "enriching"
  /\ UNCHANGED <<keys, kinds, detail, job, failures, error, sent>>

\* Job 1 is for narrations the extractor found nothing in.
Skip ==
  /\ status = "enriching" /\ Skipped
  /\ Continue
  /\ UNCHANGED <<keys, kinds, detail, error, sent>>

AnswerWithoutProvider ==
  /\ status \in {"enriching", "asking"} /\ ~Skipped /\ Silent
  /\ FallBack
  /\ UNCHANGED <<keys, kinds, error, sent>>

\* A request goes out with the prompt of the current job.
Request ==
  /\ status \in {"enriching", "asking"} /\ ~Skipped /\ ~Silent
  /\ sent' = IF status = "asking" THEN sent
             ELSE [sent EXCEPT ![exc] = @ \cup {job}]
  /\ UNCHANGED <<keys, kinds>>

Answered ==
  /\ Request
  /\ \E looks, in_chart \in BOOLEAN :
       /\ job # Draft => in_chart
       /\ Use(looks, in_chart)
  /\ UNCHANGED error

\* Mutant: the attempts start over when they are used up.
RetryForever ==
  /\ Request
  /\ BadReplies \cap Caught # {}
  /\ failures' = (failures + 1) % (MaxRetries + 1)
  /\ UNCHANGED <<detail, exc, job, status, error>>

Retry ==
  /\ Request
  /\ BadReplies \cap Caught # {} /\ failures < MaxRetries
  /\ failures' = failures + 1
  /\ UNCHANGED <<detail, exc, job, status, error>>

GiveUp ==
  /\ Request
  /\ BadReplies \cap Caught # {} /\ failures = MaxRetries
  /\ FallBack
  /\ UNCHANGED error

\* Nothing between complete and the endpoint, or the page, catches the error: a run
\* that is being enriched is lost, with the annotations it has.
Fail ==
  /\ Request
  /\ error' \in BadReplies \ Caught
  /\ status' = "raised"
  /\ UNCHANGED <<detail, exc, job, failures>>

\* The page has a question box for a run with exceptions.
Ask ==
  /\ status = "done" /\ kinds # <<>>
  /\ status' = "asking" /\ job' = "query"
  /\ UNCHANGED <<keys, kinds, detail, exc, failures, error, sent>>

Call == Skip \/ AnswerWithoutProvider \/ Answered \/ Retry \/ GiveUp \/ Fail

Next == Call \/ Ask

\* The loop runs in one thread, and a request ends: with a reply, or with the timeout
\* of the client, an APIError.
Spec == Init /\ [][Next]_vars /\ WF_vars(Call)

-----------------------------------------------------------------------------
(* Properties                                                              *)

Expected(e) ==
  {RootCause, Draft} \cup IF kinds[e] \in {"plain", "suspicious"} THEN {Classification} ELSE {}

\* Wherever the pass is, and wherever it stopped, it has given every exception before
\* that point the annotations its narration calls for, and no later one any.
AnnotatedUpToHere ==
  \A e \in DOMAIN kinds :
    /\ e < exc => DOMAIN detail[e] = Expected(e)
    /\ e > exc => DOMAIN detail[e] = {}
    /\ e = exc => DOMAIN detail[e] \subseteq Expected(e) \ {job}

Annotated == {p \in (DOMAIN kinds) \X Jobs : p[2] \in DOMAIN detail[p[1]]}

ByModel == {p \in Annotated : detail[p[1]][p[2]].by = "model" /\ p[2] \in sent[p[1]]}

\* _count_real_llm_annotations, of evaluation/ablation.py.
CountedReal == {p \in Annotated : ~detail[p[1]][p[2]].looks_fallback}

\* What the evaluation report counts as a model's answer is one: never a fallback,
\* even where a key was found and every request failed, and one the provider was asked for.
CountedAnswersAreReal == CountedReal \subseteq ByModel

\* A pass that began ends, and so does a question, whatever the provider replies.
EveryCallEnds == status \in {"enriching", "asking"} ~> status \in {"done", "raised"}

\* llm/adapter.py:35-36: complete "Returns a validated instance of `schema`, or None if
\* the provider is unavailable".
UnavailableMeansNone == error # "unavailable"
=============================================================================
