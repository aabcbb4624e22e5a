------------------------------ MODULE RunStore -------------------------------
(***************************************************************************)
(* What the reconcile service promises of its runs, without transactions,  *)
(* threads and files: decisions are put on record and stay there, a run is *)
(* stored in one step, complete, with its decisions on record before it,   *)
(* and a request is answered with a stored run of its own tenant and key,  *)
(* once and for good.  Nothing else happens to a run: it is never changed, *)
(* replaced or removed, whatever is torn, fails or crashes.  A run is named*)
(* after the client whose request computed it.                             *)
(***************************************************************************)
EXTENDS Naturals

CONSTANTS
  Clients,    \* requests
  Requests    \* what can be asked: [owner, key, count], count the exceptions there are

VARIABLES
  asked,      \* client |-> what it asks for, for the clients heard so far
  recorded,   \* decisions on record, each of a run
  store,      \* run |-> the owner, key and decisions it is stored with
  answer      \* client |-> the run it was answered with, for those answered

vars == <<asked, recorded, store, answer>>

\* A function with one more element in its domain.
With(f, c, value) == [x \in DOMAIN f \cup {c} |-> IF x = c THEN value ELSE f[x]]

Init == asked = <<>> /\ recorded = {} /\ store = <<>> /\ answer = <<>>

Ask ==
  \E c \in Clients \ DOMAIN asked, request \in Requests :
    /\ asked' = With(asked, c, request)
    /\ UNCHANGED <<recorded, store, answer>>

\* Nothing is added to the record of a run that is stored.
PutOnRecord ==
  \E d \in recorded' \ recorded :
    /\ d.run_id \in Clients \ DOMAIN store
    /\ recorded' = recorded \cup {d}
    /\ UNCHANGED <<asked, store, answer>>

\* The summary is decision 0, the exceptions are the others.
Store ==
  \E run \in DOMAIN asked \ DOMAIN store :
    LET decisions == 0..asked[run].count
    IN  /\ \A n \in decisions : [run_id |-> run, n |-> n] \in recorded
        /\ store' = With(store, run, [owner |-> asked[run].owner, key |-> asked[run].key,
                                      decisions |-> decisions])
        /\ UNCHANGED <<asked, recorded, answer>>

Reply ==
  \E c \in DOMAIN asked \ DOMAIN answer, run \in DOMAIN store :
    /\ store[run].owner = asked[c].owner /\ store[run].key = asked[c].key
    /\ answer' = With(answer, c, run)
    /\ UNCHANGED <<asked, recorded, store>>

Next == Ask \/ PutOnRecord \/ Store \/ Reply

Spec == Init /\ [][Next]_vars
=============================================================================
