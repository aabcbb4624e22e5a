--------------------------- MODULE AdvisoryProofs ---------------------------
(***************************************************************************)
(* What holds of the advisory pass for every number of exceptions.         *)
(***************************************************************************)
EXTENDS Advisory, SequenceTheorems, TLAPS

\* The jobs an exception has come past at a job.
Earlier(j) ==
  {k \in Jobs : (j = Draft /\ k # Draft) \/ (j = RootCause /\ k = Classification)}

AdvisoryTypeOK ==
  /\ kinds \in Seq(Kinds)
  /\ exc \in 1..(Len(kinds) + 1) /\ job \in Jobs \cup {"query"}
  /\ failures \in 0..MaxRetries
  /\ status \in {"enriching", "done", "asking", "raised"}
  /\ error \in BadReplies \cup {"none"}
  /\ DOMAIN detail = DOMAIN kinds
  /\ detail = [e \in DOMAIN kinds |-> detail[e]]
  /\ sent \in [DOMAIN kinds -> SUBSET Jobs]

\* A question is put to the end of the pass, and jobs are for exceptions.
WhereThePassIs ==
  /\ status = "enriching" => job \in Jobs /\ exc <= Len(kinds)
  /\ status = "asking" <=> (job = "query" /\ status \notin {"done", "raised"})
  /\ job = "query" \/ status = "done" => exc = Len(kinds) + 1

AnnotatedInOrder ==
  \A e \in DOMAIN kinds :
    DOMAIN detail[e] = IF e < exc THEN Expected(e)
                       ELSE IF e = exc THEN Expected(e) \cap Earlier(job) ELSE {}

\* An annotation is marked as what it is, and a model's answer was asked for.
TruthfullyMarked ==
  \A e \in DOMAIN kinds : \A j \in DOMAIN detail[e] :
    \/ detail[e][j] = Fallback
    \/ detail[e][j] \in {FromModel(looks) : looks \in BOOLEAN} /\ j \in sent[e]

AdvisoryInv ==
  AdvisoryTypeOK /\ WhereThePassIs /\ AnnotatedInOrder /\ TruthfullyMarked

-----------------------------------------------------------------------------
LEMMA JobsDiffer ==
  /\ Classification # RootCause /\ RootCause # Draft /\ Classification # Draft
  /\ "query" \notin Jobs
  BY DEF Classification, RootCause, Draft, Jobs

LEMMA KindsDomain == AdvisoryTypeOK => DOMAIN kinds = 1..Len(kinds) /\ Len(kinds) \in Nat
  BY DEF AdvisoryTypeOK

LEMMA AdvisoryStarts == Init => AdvisoryInv
<1> SUFFICES ASSUME Init PROVE AdvisoryInv
  OBVIOUS
<1>1. PICK n \in Nat : kinds \in [1..n -> Kinds]
  BY AdvisoryAssumption DEF Init
<1>2. kinds \in Seq(Kinds) /\ Len(kinds) = n /\ DOMAIN kinds = 1..n
  <2>1. kinds \in Seq(Kinds)
    BY <1>1, SeqDef
  <2> QED
    BY <1>1, <2>1, LenProperties
<1>3. kinds = <<>> <=> n = 0
  BY <1>2, EmptySeq
<1>4. AdvisoryTypeOK
  BY <1>2, JobsDiffer DEF Init, AdvisoryTypeOK, Jobs, MaxRetries
<1>5. WhereThePassIs
  BY <1>2, <1>3, JobsDiffer DEF Init, WhereThePassIs, Jobs
<1>6. \A e \in DOMAIN kinds : DOMAIN detail[e] = {} /\ e >= 1
  BY <1>2 DEF Init
<1>7. AnnotatedInOrder
  BY <1>2, <1>6, JobsDiffer DEF Init, AnnotatedInOrder, Earlier
<1>8. TruthfullyMarked
  BY <1>6 DEF TruthfullyMarked
<1> QED
  BY <1>4, <1>5, <1>7, <1>8 DEF AdvisoryInv

\* The loop goes on to the next job of the exception, or the first of the next one.
LEMMA ContinueMoves ==
  ASSUME AdvisoryInv, status = "enriching", Continue, UNCHANGED kinds
  PROVE  /\ exc \in DOMAIN kinds /\ job \in Jobs
         /\ exc' = (IF job = Draft THEN exc + 1 ELSE exc) /\ exc' \in 1..(Len(kinds) + 1)
         /\ job' = (IF job = Classification THEN RootCause
                    ELSE IF job = RootCause THEN Draft ELSE Classification)
         /\ job' \in Jobs
         /\ failures' = 0
         /\ status' \in {"done", "enriching"} /\ (status' = "done" <=> exc' = Len(kinds) + 1)
         /\ WhereThePassIs'
<1>1. exc \in 1..Len(kinds) /\ job \in Jobs /\ DOMAIN kinds = 1..Len(kinds) /\ Len(kinds) \in Nat
  BY KindsDomain DEF AdvisoryInv, AdvisoryTypeOK, WhereThePassIs
<1>2. job' = (IF job = Classification THEN RootCause
              ELSE IF job = RootCause THEN Draft ELSE Classification)
  BY <1>1, JobsDiffer DEF Continue, NextJob, Jobs
<1>3. job' \in Jobs
  BY <1>2 DEF Jobs
<1>4. exc' = (IF job = Draft THEN exc + 1 ELSE exc) /\ exc' \in 1..(Len(kinds) + 1)
  BY <1>1 DEF Continue
<1>5. status' \in {"done", "enriching"} /\ (status' = "done" <=> exc' = Len(kinds) + 1)
      /\ failures' = 0
  BY <1>1, <1>4 DEF Continue
<1>6. WhereThePassIs'
  BY <1>1, <1>3, <1>4, <1>5, JobsDiffer DEF WhereThePassIs
<1> QED
  BY <1>1, <1>2, <1>3, <1>4, <1>5, <1>6

\* A job done: its annotation is there unless the narration calls for none.
LEMMA OrderKept ==
  ASSUME AdvisoryInv, status = "enriching", Continue, UNCHANGED kinds,
         DOMAIN detail' = DOMAIN kinds,
         \A e \in DOMAIN kinds : e # exc => detail'[e] = detail[e],
         DOMAIN detail'[exc] = DOMAIN detail[exc] \cup ({job} \cap Expected(exc))
  PROVE  AnnotatedInOrder'
<1>1. /\ exc \in DOMAIN kinds /\ job \in Jobs
      /\ exc' = (IF job = Draft THEN exc + 1 ELSE exc)
      /\ job' = (IF job = Classification THEN RootCause
                    ELSE IF job = RootCause THEN Draft ELSE Classification)
  BY ContinueMoves
<1>2. DOMAIN kinds = 1..Len(kinds) /\ Len(kinds) \in Nat
  BY KindsDomain DEF AdvisoryInv
<1>3. \A e \in DOMAIN kinds : Expected(e)' = Expected(e) /\ Expected(e) \subseteq Jobs
  BY DEF Expected, Jobs
<1>4. /\ job = Draft => Earlier(job) \cup {job} = Jobs /\ Earlier(job') = {}
      /\ job # Draft => Earlier(job) \cup {job} = Earlier(job')
  <2>1. job = Draft => Earlier(job) \cup {job} = Jobs /\ Earlier(job') = {}
    BY <1>1, JobsDiffer DEF Earlier, Jobs
  <2>2. job = RootCause => Earlier(job) \cup {job} = Earlier(job')
    BY <1>1, JobsDiffer DEF Earlier, Jobs
  <2>3. job = Classification => Earlier(job) \cup {job} = Earlier(job')
    BY <1>1, JobsDiffer DEF Earlier, Jobs
  <2> QED
    BY <1>1, <2>1, <2>2, <2>3 DEF Jobs
<1>5. DOMAIN detail[exc] = Expected(exc) \cap Earlier(job)
  <2>1. DOMAIN detail[exc] = IF exc < exc THEN Expected(exc)
                             ELSE IF exc = exc THEN Expected(exc) \cap Earlier(job) ELSE {}
    BY <1>1 DEF AdvisoryInv, AnnotatedInOrder
  <2>2. ~(exc < exc)
    BY <1>1, <1>2
  <2> QED
    BY <2>1, <2>2
<1>6. DOMAIN detail'[exc] = Expected(exc) \cap (Earlier(job) \cup {job})
  BY <1>5
<1>7. ASSUME NEW e \in DOMAIN kinds
      PROVE  DOMAIN detail'[e] = IF e < exc' THEN Expected(e)
                                 ELSE IF e = exc' THEN Expected(e) \cap Earlier(job') ELSE {}
  <2>1. CASE e = exc
    <3>1. CASE job = Draft
      <4>1. e < exc'
        BY <1>1, <1>2, <2>1, <3>1
      <4>2. DOMAIN detail'[e] = Expected(e)
        BY <1>3, <1>4, <1>6, <2>1, <3>1
      <4> QED
        BY <4>1, <4>2
    <3>2. CASE job # Draft
      <4>1. e = exc' /\ ~(e < exc')
        BY <1>1, <1>2, <2>1, <3>2
      <4>2. DOMAIN detail'[e] = Expected(e) \cap Earlier(job')
        BY <1>4, <1>6, <2>1, <3>2
      <4> QED
        BY <4>1, <4>2
    <3> QED
      BY <3>1, <3>2
  <2>2. CASE e < exc
    <3>1. e < exc' /\ e # exc
      BY <1>1, <1>2, <2>2
    <3> QED
      BY <2>2, <3>1 DEF AdvisoryInv, AnnotatedInOrder
  <2>3. CASE e > exc
    <3>1. ~(e < exc') /\ e # exc /\ ~(e < exc)
      BY <1>1, <1>2, <2>3
    <3>2. DOMAIN detail'[e] = {}
      BY <3>1 DEF AdvisoryInv, AnnotatedInOrder
    <3>3. e = exc' => Expected(e) \cap Earlier(job') = {}
      BY <1>1, <1>4, <3>1
    <3> QED
      BY <3>1, <3>2, <3>3
  <2> QED
    BY <1>1, <1>2, <2>1, <2>2, <2>3
<1> QED
  BY <1>3, <1>7 DEF AnnotatedInOrder

LEMMA AnnotateKeeps ==
  ASSUME AdvisoryInv, status = "enriching", ~Skipped,
         NEW annotation, Annotate(annotation),
         \/ annotation = Fallback
         \/ annotation \in {FromModel(looks) : looks \in BOOLEAN} /\ job \in sent'[exc],
         UNCHANGED <<keys, kinds, error>>,
         \/ sent' = sent
         \/ sent' = [sent EXCEPT ![exc] = sent[exc] \cup {job}]
  PROVE  AdvisoryInv'
<1>1. Continue /\ detail' = [detail EXCEPT ![exc] = With(detail[exc], job, annotation)]
  BY DEF Annotate
<1>2. /\ exc \in DOMAIN kinds /\ job \in Jobs
      /\ exc' \in 1..(Len(kinds) + 1) /\ job' \in Jobs /\ failures' = 0
      /\ status' \in {"done", "enriching"} /\ WhereThePassIs'
  BY <1>1, ContinueMoves
<1>3. /\ DOMAIN detail' = DOMAIN kinds
      /\ detail' = [e \in DOMAIN kinds |-> detail'[e]]
      /\ detail'[exc] = With(detail[exc], job, annotation)
      /\ \A e \in DOMAIN kinds : e # exc => detail'[e] = detail[e]
  BY <1>1, <1>2 DEF AdvisoryInv, AdvisoryTypeOK
<1>4. /\ DOMAIN detail'[exc] = DOMAIN detail[exc] \cup {job}
      /\ detail'[exc][job] = annotation
      /\ \A j \in DOMAIN detail[exc] : j # job => detail'[exc][j] = detail[exc][j]
  BY <1>3 DEF With
<1>5. job \in Expected(exc)
  <2>1. kinds[exc] \in Kinds
    BY <1>2 DEF AdvisoryInv, AdvisoryTypeOK
  <2> QED
    BY <1>2, <2>1 DEF Skipped, Expected, Kinds, Jobs
<1>6. /\ sent' \in [DOMAIN kinds -> SUBSET Jobs]
      /\ \A e \in DOMAIN kinds : sent[e] \subseteq sent'[e]
  BY <1>2 DEF AdvisoryInv, AdvisoryTypeOK
<1>7. AdvisoryTypeOK'
  BY <1>2, <1>3, <1>6 DEF AdvisoryInv, AdvisoryTypeOK, MaxRetries
<1>8. AnnotatedInOrder'
  BY <1>1, <1>3, <1>4, <1>5, OrderKept
<1>9. TruthfullyMarked'
  <2> SUFFICES ASSUME NEW e \in DOMAIN kinds, NEW j \in DOMAIN detail'[e]
               PROVE  \/ detail'[e][j] = Fallback
                      \/ detail'[e][j] \in {FromModel(looks) : looks \in BOOLEAN} /\ j \in sent'[e]
    BY DEF TruthfullyMarked, Fallback, FromModel
  <2>1. CASE e = exc /\ j = job
    BY <1>4, <2>1
  <2>2. CASE ~(e = exc /\ j = job)
    <3>1. j \in DOMAIN detail[e] /\ detail'[e][j] = detail[e][j]
      BY <1>3, <1>4, <2>2
    <3> QED
      BY <1>6, <3>1 DEF AdvisoryInv, TruthfullyMarked
  <2> QED
    BY <2>1, <2>2
<1> QED
  BY <1>2, <1>7, <1>8, <1>9 DEF AdvisoryInv

LEMMA SkipKeeps == ASSUME AdvisoryInv, Skip PROVE AdvisoryInv'
<1>1. status = "enriching" /\ Skipped /\ Continue /\ UNCHANGED <<keys, kinds, detail, error, sent>>
  BY DEF Skip
<1>2. /\ exc \in DOMAIN kinds /\ job' \in Jobs /\ exc' \in 1..(Len(kinds) + 1)
      /\ failures' = 0 /\ status' \in {"done", "enriching"} /\ WhereThePassIs'
  BY <1>1, ContinueMoves
<1>3. AdvisoryTypeOK'
  BY <1>1, <1>2 DEF AdvisoryInv, AdvisoryTypeOK, MaxRetries
<1>4. {job} \cap Expected(exc) = {}
  BY <1>1, JobsDiffer DEF Skipped, Expected
<1>5. AnnotatedInOrder'
  <2>1. DOMAIN detail' = DOMAIN kinds
    BY <1>1 DEF AdvisoryInv, AdvisoryTypeOK
  <2> QED
    BY <1>1, <1>4, <2>1, OrderKept
<1>6. TruthfullyMarked'
  BY <1>1 DEF AdvisoryInv, TruthfullyMarked, Fallback, FromModel
<1> QED
  BY <1>2, <1>3, <1>5, <1>6 DEF AdvisoryInv

\* The steps that annotate nothing and stay at the job.
LEMMA StayKeeps ==
  ASSUME AdvisoryInv, UNCHANGED <<keys, kinds, detail, exc>>,
         failures' \in 0..MaxRetries, error' \in BadReplies \cup {"none"},
         \/ sent' = sent
         \/ status = "enriching" /\ sent' = [sent EXCEPT ![exc] = sent[exc] \cup {job}],
         \/ job' = job /\ status' \in {status, "raised"}
         \/ job' = job /\ status = "asking" /\ status' = "done"
         \/ job' = "query" /\ status = "done" /\ status' = "asking"
  PROVE  AdvisoryInv'
<1>1. status = "enriching" => exc \in DOMAIN kinds /\ job \in Jobs
  BY KindsDomain DEF AdvisoryInv, AdvisoryTypeOK, WhereThePassIs
<1>2. /\ sent' \in [DOMAIN kinds -> SUBSET Jobs]
      /\ \A e \in DOMAIN kinds : sent[e] \subseteq sent'[e]
  BY <1>1 DEF AdvisoryInv, AdvisoryTypeOK
<1>3. AdvisoryTypeOK'
  BY <1>2 DEF AdvisoryInv, AdvisoryTypeOK
<1>4. WhereThePassIs'
  BY JobsDiffer DEF AdvisoryInv, AdvisoryTypeOK, WhereThePassIs
<1>5. AnnotatedInOrder'
  <2>1. job' # job => \A e \in DOMAIN kinds : e < exc
    BY KindsDomain DEF AdvisoryInv, AdvisoryTypeOK, WhereThePassIs
  <2> QED
    BY <2>1 DEF AdvisoryInv, AnnotatedInOrder, Expected
<1>6. TruthfullyMarked'
  BY <1>2 DEF AdvisoryInv, TruthfullyMarked, Fallback, FromModel
<1> QED
  BY <1>3, <1>4, <1>5, <1>6 DEF AdvisoryInv

LEMMA AdvisoryStep == AdvisoryInv /\ [Next]_vars => AdvisoryInv'
<1> SUFFICES ASSUME AdvisoryInv, [Next]_vars PROVE AdvisoryInv'
  OBVIOUS
<1>0. failures \in 0..MaxRetries /\ error \in BadReplies \cup {"none"}
  BY DEF AdvisoryInv, AdvisoryTypeOK
<1>1. CASE UNCHANGED vars
  BY <1>0, <1>1, StayKeeps DEF vars
<1>2. CASE Skip
  BY <1>2, SkipKeeps
<1>3. CASE AnswerWithoutProvider
  <2>1. CASE status = "asking"
    BY <1>0, <1>3, <2>1, StayKeeps DEF AnswerWithoutProvider, FallBack, Answer, MaxRetries
  <2>2. CASE status = "enriching"
    BY <1>3, <2>2, AnnotateKeeps DEF AnswerWithoutProvider, FallBack
  <2> QED
    BY <1>3, <2>1, <2>2 DEF AnswerWithoutProvider
<1>4. CASE Answered
  <2>1. CASE status = "asking"
    BY <1>0, <1>4, <2>1, StayKeeps DEF Answered, Request, Use, Answer, MaxRetries
  <2>2. CASE status = "enriching"
    <3>1. PICK looks \in BOOLEAN, in_chart \in BOOLEAN : Use(looks, in_chart)
      BY <1>4 DEF Answered
    <3>2. sent' = [sent EXCEPT ![exc] = sent[exc] \cup {job}] /\ ~Skipped
          /\ UNCHANGED <<keys, kinds, error>>
      BY <1>4, <2>2 DEF Answered, Request
    <3>3. job \in sent'[exc]
      BY <2>2, <3>2, KindsDomain DEF AdvisoryInv, AdvisoryTypeOK, WhereThePassIs
    <3>4. Annotate(Fallback) \/ Annotate(FromModel(looks))
      BY <2>2, <3>1 DEF Use
    <3>5. FromModel(looks) \in {FromModel(l) : l \in BOOLEAN}
      OBVIOUS
    <3> QED
      BY <2>2, <3>2, <3>3, <3>4, <3>5, AnnotateKeeps
  <2> QED
    BY <1>4, <2>1, <2>2 DEF Answered, Request
<1>5. CASE Retry
  <2>1. failures' \in 0..MaxRetries
    BY <1>0, <1>5 DEF Retry, MaxRetries
  <2> QED
    BY <1>0, <1>5, <2>1, StayKeeps DEF Retry, Request
<1>6. CASE GiveUp
  <2>1. CASE status = "asking"
    BY <1>0, <1>6, <2>1, StayKeeps DEF GiveUp, Request, FallBack, Answer, MaxRetries
  <2>2. CASE status = "enriching"
    BY <1>6, <2>2, AnnotateKeeps DEF GiveUp, Request, FallBack
  <2> QED
    BY <1>6, <2>1, <2>2 DEF GiveUp, Request
<1>7. CASE Fail
  BY <1>0, <1>7, StayKeeps DEF Fail, Request
<1>8. CASE Ask
  BY <1>0, <1>8, StayKeeps DEF Ask
<1> QED
  BY <1>1, <1>2, <1>3, <1>4, <1>5, <1>6, <1>7, <1>8 DEF Next, Call

LEMMA AdvisoryKeeps == Spec => []AdvisoryInv
  BY AdvisoryStarts, AdvisoryStep, PTL DEF Spec

-----------------------------------------------------------------------------
\* enrich_run_result: whatever the provider replies to whichever request, each
\* exception the pass has come past has all its annotations, and the others none.
THEOREM AnnotatesInOrder == Spec => []AnnotatedUpToHere
<1>1. AdvisoryInv => AnnotatedUpToHere
  <2> SUFFICES ASSUME AdvisoryInv, NEW e \in DOMAIN kinds
               PROVE  /\ e < exc => DOMAIN detail[e] = Expected(e)
                      /\ e > exc => DOMAIN detail[e] = {}
                      /\ e = exc => DOMAIN detail[e] \subseteq Expected(e) \ {job}
    BY DEF AnnotatedUpToHere
  <2>1. e \in Int /\ exc \in Int
    BY KindsDomain DEF AdvisoryInv, AdvisoryTypeOK
  <2>2. job \notin Earlier(job)
    BY JobsDiffer DEF Earlier
  <2>3. DOMAIN detail[e] = IF e < exc THEN Expected(e)
                           ELSE IF e = exc THEN Expected(e) \cap Earlier(job) ELSE {}
    BY DEF AdvisoryInv, AnnotatedInOrder
  <2>4. e < exc => DOMAIN detail[e] = Expected(e)
    BY <2>3
  <2>5. e > exc => DOMAIN detail[e] = {}
    BY <2>1, <2>3
  <2>6. e = exc => DOMAIN detail[e] \subseteq Expected(e) \ {job}
    <3>1. ASSUME e = exc PROVE DOMAIN detail[e] = Expected(e) \cap Earlier(job)
      BY <2>1, <2>3, <3>1
    <3> QED
      BY <2>2, <3>1
  <2> QED
    BY <2>4, <2>5, <2>6
<1> QED
  BY AdvisoryKeeps, <1>1, PTL

\* _count_real_llm_annotations counts no fallback as the answer of a model, and no
\* answer the provider was not asked for.
THEOREM CountsOnlyAnswers == Spec => []CountedAnswersAreReal
<1>1. AdvisoryInv => CountedAnswersAreReal
  <2> SUFFICES ASSUME AdvisoryInv, NEW p \in CountedReal
               PROVE  detail[p[1]][p[2]].by = "model" /\ p[2] \in sent[p[1]]
    BY DEF CountedAnswersAreReal, ByModel, CountedReal
  <2>1. /\ p[1] \in DOMAIN kinds /\ p[2] \in DOMAIN detail[p[1]]
        /\ ~detail[p[1]][p[2]].looks_fallback
    BY DEF CountedReal, Annotated
  <2>2. detail[p[1]][p[2]] # Fallback
    BY <2>1 DEF Fallback
  <2>3. PICK looks \in BOOLEAN : detail[p[1]][p[2]] = FromModel(looks) /\ p[2] \in sent[p[1]]
    BY <2>1, <2>2 DEF AdvisoryInv, TruthfullyMarked
  <2> QED
    BY <2>3 DEF FromModel
<1> QED
  BY AdvisoryKeeps, <1>1, PTL
=============================================================================
