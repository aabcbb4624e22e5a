---------------------------- MODULE IngestProofs ----------------------------
(***************************************************************************)
(* What holds of uploads for every number of them and every content of the *)
(* files.                                                                  *)
(***************************************************************************)
EXTENDS Ingest, TLAPS

InProgress == {"open", "write", "check"}

IngestTypeOK ==
  /\ payload \in [Uploads -> Payloads]
  /\ disk \in [Uploads -> [Files -> {"absent", "part", "whole"}]]
  /\ phase \in [Uploads -> Phases]
  /\ pos \in [Uploads -> Files]
  /\ form \in AppUploads \cup {NoDataset}
  /\ failed \in BOOLEAN
  /\ recorded \subseteq ApiUploads
  /\ script \in Scripts
  /\ dataset \in AppUploads \cup {Demo, NoDataset}
  /\ shown \in AppUploads \cup {Demo, NoDataset}
  /\ halfSwitched \in BOOLEAN

\* An upload of the form is under way only while the script is at it.
FormInScript ==
  \A u \in AppUploads :
    /\ phase[u] \in {"new", "ended"} \cup InProgress
    /\ phase[u] \in InProgress => u = form /\ script = "upload"

Kept(u, f) == disk[u][f] = "whole" /\ payload[u][f] \notin OverLimit

\* The files an upload has come past are kept, unless one was rejected.
FilesSoFar ==
  \A u \in Uploads :
    /\ phase[u] = "new" => pos[u] = 1
    /\ phase[u] \in InProgress /\ (u \in ApiUploads \/ ~failed) =>
         \A f \in Files : f < pos[u] => Kept(u, f)
    /\ phase[u] = "check" => disk[u][pos[u]] = "whole" /\ Content(u) # "too_big"

\* Whoever accepts an upload, or is about to, finds it complete and at rest.
CompleteWhenAccepted ==
  /\ \A u \in ApiUploads :
       /\ phase[u] \in {"record", "answer", "answered"} \/ u \in recorded => Complete(u)
       /\ phase[u] \in {"answer", "answered"} => u \in recorded
       /\ u \in recorded => phase[u] \in {"answer", "answered", "ended"}
  /\ \A u \in AppUploads :
       dataset = u \/ (script = "set_dataset" /\ form = u) =>
         phase[u] = "ended" /\ Complete(u)
  /\ script = "set_dataset" => form \in AppUploads

IngestInv ==
  /\ IngestTypeOK /\ FormInScript /\ FilesSoFar /\ CompleteWhenAccepted
  /\ ShownRunIsOfTheDataset

-----------------------------------------------------------------------------
LEMMA IngestStarts == Init => IngestInv
<1> SUFFICES ASSUME Init PROVE IngestInv
  OBVIOUS
<1>1. IngestTypeOK
  <2>1. disk \in [Uploads -> [Files -> {"absent", "part", "whole"}]]
    BY DEF Init
  <2>2. pos \in [Uploads -> Files]
    BY DEF Init, Files
  <2> QED
    BY <2>1, <2>2 DEF Init, IngestTypeOK, Phases, Scripts
<1>2. FormInScript /\ CompleteWhenAccepted
  BY IngestAssumption DEF Init, FormInScript, CompleteWhenAccepted, InProgress, Uploads
<1>3. FilesSoFar /\ ShownRunIsOfTheDataset
  BY DEF Init, FilesSoFar, ShownRunIsOfTheDataset, InProgress
<1> QED
  BY <1>1, <1>2, <1>3 DEF IngestInv

\* Where FileDone leaves an upload, and the script.
LEMMA FileDoneMoves ==
  ASSUME IngestInv, NEW u \in Uploads, NEW ok \in BOOLEAN, FileDone(u, ok),
         phase[u] \in InProgress
  PROVE  /\ \E to \in Phases \ {"write", "check", "answer", "answered", "new"} :
              /\ phase' = [phase EXCEPT ![u] = to]
              /\ to = "record" => u \in ApiUploads /\ ok /\ pos[u] = 3
              /\ to = "rejected" => u \in ApiUploads
              /\ to = "ended" => u \in AppUploads /\ pos[u] = 3
              /\ to = "open" => pos[u] # 3 /\ (u \in ApiUploads => ok)
         /\ pos' = [pos EXCEPT ![u] = IF pos[u] = 3 THEN pos[u] ELSE pos[u] + 1]
         /\ pos' \in [Uploads -> Files]
         /\ u \in ApiUploads => script' = script /\ failed' = failed
         /\ u \in AppUploads =>
              /\ script = "upload" /\ form = u
              /\ script' \in {"upload", "idle", "set_dataset"}
              /\ script' = "upload" <=> pos[u] # 3
              /\ script' = "set_dataset" => ~failed'
              /\ failed' = (failed \/ ~ok)
<1>1. u \in ApiUploads <=> u \notin AppUploads
  BY IngestAssumption DEF Uploads
<1>2. pos[u] \in Files
  BY DEF IngestInv, IngestTypeOK
<1>3. pos' = [pos EXCEPT ![u] = IF pos[u] = 3 THEN pos[u] ELSE pos[u] + 1]
  BY DEF FileDone
<1>4. pos' \in [Uploads -> Files]
  BY <1>2, <1>3 DEF Files, IngestInv, IngestTypeOK
<1>5. u \in AppUploads => script = "upload" /\ form = u
  BY DEF IngestInv, FormInScript
<1>6. PICK to : phase' = [phase EXCEPT ![u] = to]
             /\ to = CASE u \in ApiUploads /\ ~ok -> "rejected"
                       [] u \in ApiUploads /\ ok /\ pos[u] = 3 -> "record"
                       [] u \in AppUploads /\ pos[u] = 3 -> "ended"
                       [] OTHER -> "open"
  BY DEF FileDone, Goto
<1>7. /\ to \in Phases \ {"write", "check", "answer", "answered", "new"}
      /\ to = "record" => u \in ApiUploads /\ ok /\ pos[u] = 3
      /\ to = "rejected" => u \in ApiUploads
      /\ to = "ended" => u \in AppUploads /\ pos[u] = 3
      /\ to = "open" => pos[u] # 3 /\ (u \in ApiUploads => ok)
  <2>1. CASE u \in ApiUploads /\ ~ok
    BY <1>1, <1>6, <2>1 DEF Phases
  <2>2. CASE u \in ApiUploads /\ ok
    BY <1>1, <1>6, <2>2 DEF Phases
  <2>3. CASE u \in AppUploads
    BY <1>1, <1>6, <2>3 DEF Phases
  <2> QED
    BY <2>1, <2>2, <2>3 DEF Uploads
<1>8. u \in ApiUploads => script' = script /\ failed' = failed
  <2> SUFFICES ASSUME u \in ApiUploads PROVE script' = script /\ failed' = failed
    OBVIOUS
  <2>1. script' = script
    BY <1>1 DEF FileDone
  <2>2. failed' = (failed \/ (u \in AppUploads /\ ~ok)) /\ failed \in BOOLEAN
    BY DEF FileDone, IngestInv, IngestTypeOK
  <2>3. failed' = failed
    <3>1. CASE failed
      BY <2>2, <3>1
    <3>2. CASE ~failed
      BY <1>1, <2>2, <3>2
    <3> QED
      BY <3>1, <3>2
  <2> QED
    BY <2>1, <2>3
<1>9. u \in AppUploads => failed' = (failed \/ ~ok)
  <2>1. failed' = (failed \/ (u \in AppUploads /\ ~ok))
    BY DEF FileDone
  <2> QED
    BY <2>1
<1>10. u \in AppUploads =>
         /\ script' \in {"upload", "idle", "set_dataset"}
         /\ script' = "upload" <=> pos[u] # 3
         /\ script' = "set_dataset" => ~failed'
  <2>1. script' = CASE u \in ApiUploads \/ ~(pos[u] = 3) -> script
                    [] u \in AppUploads /\ pos[u] = 3 /\ failed' -> "idle"
                    [] OTHER -> "set_dataset"
    BY DEF FileDone
  <2> QED
    BY <1>1, <1>5, <2>1
<1> QED
  BY <1>3, <1>4, <1>5, <1>6, <1>7, <1>8, <1>9, <1>10

\* The two steps that end a file, as far as the invariant sees them.
LEMMA FileKeeps ==
  ASSUME IngestInv, NEW u \in Uploads, NEW ok \in BOOLEAN, FileDone(u, ok),
         phase[u] \in {"write", "check"}, ok => phase[u] = "check" /\ Kept(u, pos[u]),
         IF ok THEN UNCHANGED disk
         ELSE disk' \in {disk, [disk EXCEPT ![u][pos[u]] = "absent"]},
         UNCHANGED <<payload, recorded, form, dataset, shown, halfSwitched>>
  PROVE  IngestInv'
<1>1. u \in ApiUploads <=> u \notin AppUploads
  BY IngestAssumption DEF Uploads
<1>2. phase[u] \in InProgress
  BY DEF InProgress
<1>3. PICK to \in Phases \ {"write", "check", "answer", "answered", "new"} :
              /\ phase' = [phase EXCEPT ![u] = to]
              /\ to = "record" => u \in ApiUploads /\ ok /\ pos[u] = 3
              /\ to = "rejected" => u \in ApiUploads
              /\ to = "ended" => u \in AppUploads /\ pos[u] = 3
              /\ to = "open" => pos[u] # 3 /\ (u \in ApiUploads => ok)
  BY <1>2, FileDoneMoves
<1>4. /\ pos' = [pos EXCEPT ![u] = IF pos[u] = 3 THEN pos[u] ELSE pos[u] + 1]
      /\ pos' \in [Uploads -> Files]
      /\ u \in ApiUploads => script' = script /\ failed' = failed
      /\ u \in AppUploads =>
           /\ script = "upload" /\ form = u
           /\ script' \in {"upload", "idle", "set_dataset"}
           /\ script' = "upload" <=> pos[u] # 3
           /\ script' = "set_dataset" => ~failed'
           /\ failed' = (failed \/ ~ok)
  BY <1>2, FileDoneMoves
<1>5. /\ phase' \in [Uploads -> Phases] /\ phase'[u] = to
      /\ \A t \in Uploads \ {u} : phase'[t] = phase[t] /\ pos'[t] = pos[t] /\ disk'[t] = disk[t]
      /\ disk' \in [Uploads -> [Files -> {"absent", "part", "whole"}]]
      /\ pos[u] \in Files /\ pos'[u] = IF pos[u] = 3 THEN pos[u] ELSE pos[u] + 1
      /\ \A f \in Files : f < pos[u] => disk'[u][f] = disk[u][f]
      /\ ok => disk' = disk
  BY <1>3, <1>4 DEF IngestInv, IngestTypeOK, Files
<1>6. UNCHANGED <<payload, recorded, form, dataset, shown, halfSwitched>>
  OBVIOUS
<1>7. IngestTypeOK'
  <2>1. failed' \in BOOLEAN /\ script' \in Scripts
    BY <1>1, <1>4 DEF IngestInv, IngestTypeOK, Scripts, Uploads
  <2> QED
    BY <1>4, <1>5, <1>6, <2>1 DEF IngestInv, IngestTypeOK
<1>8. FormInScript'
  <2> SUFFICES ASSUME NEW t \in AppUploads
               PROVE  /\ phase'[t] \in {"new", "ended"} \cup InProgress
                      /\ phase'[t] \in InProgress => t = form /\ script' = "upload"
    BY <1>6 DEF FormInScript
  <2>1. CASE t = u
    BY <1>1, <1>3, <1>4, <1>5, <2>1 DEF Phases, InProgress
  <2>2. CASE t # u
    BY <1>1, <1>4, <1>5, <2>2 DEF IngestInv, FormInScript, InProgress, Uploads
  <2> QED
    BY <2>1, <2>2
<1>9. \A f \in Files : f < pos[u] => (Kept(u, f)' <=> Kept(u, f))
  BY <1>5, <1>6 DEF Kept
<1>10. ok => \A f \in Files : Kept(u, f)' <=> Kept(u, f)
  BY <1>5, <1>6 DEF Kept
<1>11. ok /\ (u \in ApiUploads \/ ~failed) =>
         \A f \in Files : f <= pos[u] => Kept(u, f)'
  <2> SUFFICES ASSUME ok, u \in ApiUploads \/ ~failed, NEW f \in Files, f <= pos[u]
               PROVE  Kept(u, f)
    BY <1>10
  <2>1. CASE f = pos[u]
    BY <2>1
  <2>2. CASE f # pos[u]
    BY <1>2, <1>5, <2>2 DEF IngestInv, FilesSoFar, Files
  <2> QED
    BY <2>1, <2>2
<1>12. FilesSoFar'
  <2> SUFFICES ASSUME NEW t \in Uploads
               PROVE  /\ phase'[t] = "new" => pos'[t] = 1
                      /\ phase'[t] \in InProgress /\ (t \in ApiUploads \/ ~failed') =>
                           \A f \in Files : f < pos'[t] => Kept(t, f)'
                      /\ phase'[t] = "check" => disk'[t][pos'[t]] = "whole" /\ Content(t)' # "too_big"
    BY DEF FilesSoFar
  <2>1. CASE t = u
    <3>1. phase'[u] \in InProgress =>
            to = "open" /\ pos'[u] = pos[u] + 1 /\ (u \in ApiUploads => ok)
      BY <1>3, <1>5 DEF InProgress
    <3>2. u \in AppUploads /\ ~failed' => ok /\ ~failed
      BY <1>4 DEF IngestInv, IngestTypeOK
    <3>3. phase'[u] \in InProgress /\ (u \in ApiUploads \/ ~failed') =>
            ok /\ (u \in ApiUploads \/ ~failed)
      BY <1>1, <3>1, <3>2
    <3> QED
      BY <1>5, <1>11, <2>1, <3>1, <3>3 DEF Files, InProgress
  <2>2. CASE t # u
    <3>1. /\ disk'[t] = disk[t] /\ phase'[t] = phase[t] /\ pos'[t] = pos[t]
          /\ \A f : Kept(t, f)' <=> Kept(t, f)
          /\ Content(t)' = Content(t)
      BY <1>5, <1>6, <2>2 DEF Kept, Content
    <3>2. phase[t] \in InProgress /\ (t \in ApiUploads \/ ~failed') =>
            t \in ApiUploads \/ ~failed
      BY <1>1, <1>4, <2>2 DEF IngestInv, FormInScript, Uploads
    <3> QED
      BY <3>1, <3>2 DEF IngestInv, FilesSoFar
  <2> QED
    BY <2>1, <2>2
<1>13. ok /\ (u \in ApiUploads \/ ~failed) /\ pos[u] = 3 => Complete(u)'
  BY <1>11 DEF Complete, Kept, Files
<1>14. \A t \in Uploads \ {u} : Complete(t)' <=> Complete(t)
  BY <1>5, <1>6 DEF Complete
<1>15. CompleteWhenAccepted'
  <2>1. ASSUME NEW t \in ApiUploads
        PROVE  /\ phase'[t] \in {"record", "answer", "answered"} \/ t \in recorded => Complete(t)'
               /\ phase'[t] \in {"answer", "answered"} => t \in recorded
               /\ t \in recorded => phase'[t] \in {"answer", "answered", "ended"}
    <3>1. CASE t = u
      BY <1>3, <1>5, <1>13, <3>1 DEF IngestInv, CompleteWhenAccepted
    <3>2. CASE t # u
      BY <1>5, <1>14, <3>2 DEF IngestInv, CompleteWhenAccepted, Uploads
    <3> QED
      BY <3>1, <3>2
  <2>2. ASSUME NEW t \in AppUploads, dataset = t \/ (script' = "set_dataset" /\ form = t)
        PROVE  phase'[t] = "ended" /\ Complete(t)'
    <3>1. CASE t = u
      <4>1. dataset # u
        BY <1>2, <3>1 DEF IngestInv, CompleteWhenAccepted, InProgress
      <4>2. ~failed' /\ pos[u] = 3
        BY <1>1, <1>4, <2>2, <3>1, <4>1
      <4>3. ok /\ ~failed
        BY <1>4, <3>1, <4>2 DEF IngestInv, IngestTypeOK
      <4>4. to = "ended"
        BY <1>1, <1>3, <3>1, <4>2 DEF Phases
      <4> QED
        BY <1>5, <1>13, <3>1, <4>2, <4>3, <4>4
    <3>2. CASE t # u
      <4>1. dataset = t \/ (script = "set_dataset" /\ form = t)
        BY <1>1, <1>4, <2>2, <3>2 DEF Uploads
      <4> QED
        BY <1>5, <1>14, <3>2, <4>1 DEF IngestInv, CompleteWhenAccepted, Uploads
    <3> QED
      BY <3>1, <3>2
  <2>3. script' = "set_dataset" => form \in AppUploads
    BY <1>1, <1>4 DEF IngestInv, CompleteWhenAccepted, Uploads
  <2> QED
    BY <1>6, <2>1, <2>2, <2>3 DEF CompleteWhenAccepted
<1>16. ShownRunIsOfTheDataset'
  BY <1>1, <1>4, <1>6 DEF IngestInv, ShownRunIsOfTheDataset, Uploads
<1> QED
  BY <1>7, <1>8, <1>12, <1>15, <1>16 DEF IngestInv

-----------------------------------------------------------------------------
LEMMA BeginKeeps ==
  ASSUME IngestInv, NEW u \in Uploads, BeginIngest(u) \/ BeginForm(u)
  PROVE  IngestInv'
<1>1. u \in ApiUploads <=> u \notin AppUploads
  BY IngestAssumption DEF Uploads
<1>2. /\ phase' = [phase EXCEPT ![u] = "open"] /\ phase[u] = "new" /\ pos[u] = 1
      /\ UNCHANGED <<payload, disk, pos, recorded, dataset, shown, halfSwitched>>
  BY DEF BeginIngest, BeginForm, Goto, Session, IngestInv, FilesSoFar
<1>3. \/ u \in ApiUploads /\ UNCHANGED <<form, failed, script>>
      \/ u \in AppUploads /\ script = "idle" /\ script' = "upload" /\ form' = u /\ failed' = FALSE
  BY DEF BeginIngest, BeginForm, Session
<1>4. IngestTypeOK'
  BY <1>2, <1>3 DEF IngestInv, IngestTypeOK, Phases, Scripts
<1>5. FormInScript'
  BY <1>1, <1>2, <1>3 DEF IngestInv, IngestTypeOK, FormInScript, InProgress, Uploads
<1>6. FilesSoFar'
  <2> SUFFICES ASSUME NEW t \in Uploads
               PROVE  /\ phase'[t] = "new" => pos[t] = 1
                      /\ phase'[t] \in InProgress /\ (t \in ApiUploads \/ ~failed') =>
                           \A f \in Files : f < pos[t] => Kept(t, f)
                      /\ phase'[t] = "check" => disk[t][pos[t]] = "whole" /\ Content(t) # "too_big"
    BY <1>2 DEF FilesSoFar, Kept, Content
  <2>1. CASE t = u
    BY <1>2, <2>1 DEF IngestInv, IngestTypeOK, Files
  <2>2. CASE t # u
    <3>1. phase'[t] = phase[t]
      BY <1>2, <2>2 DEF IngestInv, IngestTypeOK
    <3>2. phase[t] \in InProgress /\ (t \in ApiUploads \/ ~failed') => t \in ApiUploads \/ ~failed
      BY <1>1, <1>3, <2>2 DEF IngestInv, FormInScript, Uploads
    <3> QED
      BY <3>1, <3>2 DEF IngestInv, FilesSoFar
  <2> QED
    BY <2>1, <2>2
<1>7. CompleteWhenAccepted'
  BY <1>1, <1>2, <1>3 DEF IngestInv, IngestTypeOK, CompleteWhenAccepted, Complete, Uploads
<1>8. ShownRunIsOfTheDataset'
  BY <1>2, <1>3 DEF IngestInv, ShownRunIsOfTheDataset
<1> QED
  BY <1>4, <1>5, <1>6, <1>7, <1>8 DEF IngestInv

\* A file is created, or found to be within the byte limit.
LEMMA OnDiskKeeps ==
  ASSUME IngestInv, NEW u \in Uploads,
         NEW from \in {"open", "write"}, NEW to \in {"write", "check"},
         phase[u] = from, phase' = [phase EXCEPT ![u] = to],
         NEW state \in {"part", "whole"}, OnDisk(u, state),
         to = "check" => state = "whole" /\ Content(u) # "too_big",
         UNCHANGED <<payload, pos, failed, recorded, Session>>
  PROVE  IngestInv'
<1>1. UNCHANGED <<payload, pos, failed, recorded, form, script, dataset, shown, halfSwitched>>
  BY DEF Session
<1>2. /\ disk' \in [Uploads -> [Files -> {"absent", "part", "whole"}]]
      /\ disk'[u][pos[u]] = state
      /\ \A f \in Files : f # pos[u] => disk'[u][f] = disk[u][f]
      /\ \A t \in Uploads \ {u} : disk'[t] = disk[t]
  BY DEF OnDisk, IngestInv, IngestTypeOK
<1>3. phase' \in [Uploads -> Phases] /\ \A t \in Uploads \ {u} : phase'[t] = phase[t]
  BY DEF IngestInv, IngestTypeOK, Phases
<1>4. phase'[u] = to /\ phase[u] \in InProgress
  BY DEF IngestInv, IngestTypeOK, InProgress
<1>5. IngestTypeOK'
  BY <1>1, <1>2, <1>3 DEF IngestInv, IngestTypeOK
<1>6. FormInScript'
  BY <1>1, <1>3, <1>4 DEF IngestInv, FormInScript, InProgress, Uploads
<1>7. FilesSoFar'
  <2> SUFFICES ASSUME NEW t \in Uploads
               PROVE  /\ phase'[t] = "new" => pos[t] = 1
                      /\ phase'[t] \in InProgress /\ (t \in ApiUploads \/ ~failed) =>
                           \A f \in Files : f < pos[t] => Kept(t, f)'
                      /\ phase'[t] = "check" => disk'[t][pos[t]] = "whole" /\ Content(t) # "too_big"
    BY <1>1 DEF FilesSoFar, Content
  <2>1. CASE t = u
    <3>1. pos[u] \in Files
      BY DEF IngestInv, IngestTypeOK
    <3>2. \A f \in Files : f < pos[u] => (Kept(u, f)' <=> Kept(u, f))
      BY <1>1, <1>2, <3>1 DEF Kept, Files
    <3> QED
      BY <1>2, <1>4, <2>1, <3>2 DEF IngestInv, FilesSoFar
  <2>2. CASE t # u
    <3>1. \A f \in Files : Kept(t, f)' <=> Kept(t, f)
      BY <1>1, <1>2, <2>2 DEF Kept
    <3> QED
      BY <1>2, <1>3, <2>2, <3>1 DEF IngestInv, FilesSoFar
  <2> QED
    BY <2>1, <2>2
<1>8. CompleteWhenAccepted'
  <2>1. \A t \in Uploads \ {u} : Complete(t)' <=> Complete(t)
    BY <1>1, <1>2 DEF Complete
  <2>2. \A t \in ApiUploads : t = u => t \notin recorded
    BY <1>4 DEF IngestInv, CompleteWhenAccepted, InProgress
  <2>3. \A t \in AppUploads : dataset = t \/ (script = "set_dataset" /\ form = t) => t # u
    BY <1>4 DEF IngestInv, CompleteWhenAccepted, InProgress
  <2> QED
    BY <1>1, <1>3, <1>4, <2>1, <2>2, <2>3 DEF IngestInv, CompleteWhenAccepted, Uploads
<1>9. ShownRunIsOfTheDataset'
  BY <1>1 DEF IngestInv, ShownRunIsOfTheDataset
<1> QED
  BY <1>5, <1>6, <1>7, <1>8, <1>9 DEF IngestInv

LEMMA WriteKeeps ==
  ASSUME IngestInv, NEW u \in Uploads, OpenFile(u) \/ WriteFile(u)
  PROVE  IngestInv'
<1>1. CASE OpenFile(u)
  BY <1>1, OnDiskKeeps DEF OpenFile, Goto
<1>2. CASE WriteFile(u) /\ Content(u) # "too_big"
  BY <1>2, OnDiskKeeps DEF WriteFile, Goto, Session
<1>3. CASE WriteFile(u) /\ Content(u) = "too_big"
  <2>1. FileDone(u, FALSE) /\ disk' = [disk EXCEPT ![u][pos[u]] = "absent"]
    BY <1>3 DEF WriteFile, OnDisk
  <2> QED
    BY <1>3, <2>1, FileKeeps DEF WriteFile
<1> QED
  BY <1>1, <1>2, <1>3

LEMMA CheckKeeps ==
  ASSUME IngestInv, NEW u \in Uploads, CheckRows(u)
  PROVE  IngestInv'
<1>1. CASE Content(u) = "too_long"
  <2>1. /\ FileDone(u, FALSE)
        /\ disk' \in {disk, [disk EXCEPT ![u][pos[u]] = "absent"]}
    BY <1>1 DEF CheckRows, OnDisk
  <2> QED
    BY <2>1, FileKeeps DEF CheckRows
<1>2. CASE Content(u) # "too_long"
  <2>1. FileDone(u, TRUE) /\ UNCHANGED disk /\ phase[u] = "check"
    BY <1>2 DEF CheckRows
  <2>2. Kept(u, pos[u])
    BY <1>2, <2>1 DEF IngestInv, FilesSoFar, Kept, Content, OverLimit
  <2> QED
    BY <2>1, <2>2, FileKeeps DEF CheckRows
<1> QED
  BY <1>1, <1>2

\* The uploads that end, or go on to the log or the answer, touch no file.
LEMMA EndKeeps ==
  ASSUME IngestInv, NEW u \in Uploads, FailUpload(u) \/ RecordIngest(u) \/ AnswerIngest(u)
  PROVE  IngestInv'
<1>1. u \in ApiUploads <=> u \notin AppUploads
  BY IngestAssumption DEF Uploads
<1>2. UNCHANGED <<payload, disk, pos, form, failed, dataset, shown, halfSwitched>>
  BY DEF FailUpload, RecordIngest, AnswerIngest, Session
<1>3. PICK to \in {"ended", "answer", "answered"} : phase' = [phase EXCEPT ![u] = to]
  BY DEF FailUpload, RecordIngest, AnswerIngest, Goto
<1>4. /\ to = "ended" => phase[u] \in InProgress \cup {"record"} /\ recorded' = recorded
      /\ to = "answer" => phase[u] = "record" /\ recorded' = recorded \cup {u}
      /\ to = "answered" => phase[u] = "answer" /\ recorded' = recorded
  <2>1. phase'[u] = to
    BY <1>3 DEF IngestInv, IngestTypeOK
  <2> QED
    BY <1>3, <2>1 DEF FailUpload, RecordIngest, AnswerIngest, Goto, InProgress, IngestInv, IngestTypeOK
<1>5. u \in ApiUploads => script' = script
  BY <1>1 DEF FailUpload, RecordIngest, AnswerIngest, Session
<1>6. u \in AppUploads => to = "ended" /\ script = "upload" /\ script' = "idle" /\ form = u
  BY <1>3, <1>4 DEF FailUpload, RecordIngest, AnswerIngest, IngestInv, FormInScript, InProgress
<1>7. phase' \in [Uploads -> Phases] /\ phase'[u] = to
      /\ \A t \in Uploads \ {u} : phase'[t] = phase[t]
  BY <1>3 DEF IngestInv, IngestTypeOK, Phases
<1>8. IngestTypeOK'
  BY <1>1, <1>2, <1>4, <1>5, <1>6, <1>7 DEF IngestInv, IngestTypeOK, Scripts, Uploads, FormInScript, InProgress
<1>9. FormInScript'
  BY <1>1, <1>2, <1>5, <1>6, <1>7 DEF IngestInv, FormInScript, InProgress, Uploads
<1>10. FilesSoFar'
  BY <1>2, <1>7 DEF IngestInv, FilesSoFar, Kept, Content, InProgress
<1>11. CompleteWhenAccepted'
  BY <1>1, <1>2, <1>4, <1>5, <1>6, <1>7
  DEF IngestInv, CompleteWhenAccepted, Complete, Uploads, InProgress
<1>12. ShownRunIsOfTheDataset'
  BY <1>1, <1>2, <1>5, <1>6 DEF IngestInv, ShownRunIsOfTheDataset, Uploads
<1> QED
  BY <1>8, <1>9, <1>10, <1>11, <1>12 DEF IngestInv

LEMMA CrashApiKeeps == ASSUME IngestInv, CrashApi PROVE IngestInv'
<1>1. ApiUploads \cap AppUploads = {}
  BY IngestAssumption
<1>2. UNCHANGED <<payload, disk, pos, failed, recorded, form, script, dataset, shown, halfSwitched>>
  BY DEF CrashApi, Session
<1>3. /\ \A u \in AppUploads : phase'[u] = phase[u]
      /\ \A u \in ApiUploads :
           \/ phase'[u] = "ended" /\ phase[u] \notin {"new", "answered", "rejected"}
           \/ phase'[u] = phase[u] /\ phase[u] \in {"new", "answered", "rejected"}
      /\ phase' \in [Uploads -> Phases]
  BY <1>1 DEF CrashApi, Uploads, Phases, IngestInv, IngestTypeOK
<1>4. IngestTypeOK'
  BY <1>2, <1>3 DEF IngestInv, IngestTypeOK
<1>5. FormInScript' /\ ShownRunIsOfTheDataset'
  BY <1>2, <1>3 DEF IngestInv, FormInScript, ShownRunIsOfTheDataset
<1>6. FilesSoFar'
  BY <1>2, <1>3 DEF IngestInv, FilesSoFar, Kept, Content, InProgress, Uploads
<1>7. CompleteWhenAccepted'
  BY <1>2, <1>3 DEF IngestInv, CompleteWhenAccepted, Complete
<1> QED
  BY <1>4, <1>5, <1>6, <1>7 DEF IngestInv

\* The steps of the script between two uploads.
LEMMA ScriptKeeps ==
  ASSUME IngestInv,
         UseDemo \/ SetDataset \/ PopRun \/ BeginRun \/ CountRows \/ Reconcile \/ SetRun
  PROVE  IngestInv'
<1>1. UNCHANGED <<payload, disk, phase, pos, form, failed, recorded>>
  BY DEF UseDemo, SetDataset, PopRun, BeginRun, CountRows, Reconcile, SetRun, Uploading
<1>2. /\ script \notin {"upload"} /\ script' \notin {"upload", "set_dataset"}
      /\ script' \in Scripts
      /\ dataset' \in {dataset, Demo} \/ (script = "set_dataset" /\ dataset' = form)
  BY DEF UseDemo, SetDataset, PopRun, BeginRun, CountRows, Reconcile, SetRun, Scripts
<1>3. shown' \in {shown, NoDataset, dataset} /\ halfSwitched' \in {halfSwitched, FALSE}
  BY DEF UseDemo, SetDataset, PopRun, BeginRun, CountRows, Reconcile, SetRun
<1>4. IngestTypeOK'
  BY <1>1, <1>2, <1>3 DEF IngestInv, IngestTypeOK
<1>5. FormInScript'
  BY <1>1, <1>2 DEF IngestInv, FormInScript
<1>6. FilesSoFar'
  BY <1>1 DEF IngestInv, FilesSoFar, Kept, Content
<1>7. CompleteWhenAccepted'
  BY <1>1, <1>2, IngestAssumption
  DEF IngestInv, IngestTypeOK, CompleteWhenAccepted, Complete, Uploads
<1>8. ShownRunIsOfTheDataset'
  BY <1>2, <1>3 DEF IngestInv, ShownRunIsOfTheDataset,
       UseDemo, SetDataset, PopRun, BeginRun, CountRows, Reconcile, SetRun
<1> QED
  BY <1>4, <1>5, <1>6, <1>7, <1>8 DEF IngestInv

LEMMA StopKeeps == ASSUME IngestInv, Interrupt \/ CrashApp PROVE IngestInv'
<1>1. /\ UNCHANGED <<payload, disk, pos, form, failed, recorded>> /\ script' = "idle"
      /\ dataset' \in {dataset, NoDataset} /\ shown' \in {shown, NoDataset}
      /\ halfSwitched' \in BOOLEAN
  BY DEF Interrupt, CrashApp, IngestInv, IngestTypeOK
<1>2. /\ phase' \in [Uploads -> Phases]
      /\ \A u \in Uploads : \/ phase'[u] = phase[u]
                            \/ phase'[u] = "ended" /\ u = form /\ script = "upload"
  <2>1. CASE Interrupt
    BY <2>1 DEF Interrupt, ShowsError, IngestInv, IngestTypeOK, Phases
  <2>2. CASE CrashApp
    BY <2>2 DEF CrashApp, IngestInv, IngestTypeOK, Phases
  <2> QED
    BY <2>1, <2>2
<1>3. \A u \in AppUploads : phase'[u] \notin InProgress
  <2> SUFFICES ASSUME NEW u \in AppUploads, phase[u] \in InProgress
               PROVE  phase'[u] = "ended"
    BY <1>2 DEF Uploads, InProgress
  <2>1. u = form /\ script = "upload"
    BY DEF IngestInv, FormInScript
  <2>2. CASE Interrupt
    BY <2>1, <2>2 DEF Interrupt, ShowsError, IngestInv, IngestTypeOK, Uploads
  <2>3. CASE CrashApp
    BY <2>1, <2>3 DEF CrashApp, Uploads
  <2> QED
    BY <2>2, <2>3
<1>4. \A u \in ApiUploads : phase'[u] = phase[u]
  BY <1>2, IngestAssumption DEF IngestInv, IngestTypeOK, Uploads
<1>5. IngestTypeOK'
  BY <1>1, <1>2 DEF IngestInv, IngestTypeOK, Scripts
<1>6. FormInScript'
  BY <1>1, <1>2, <1>3 DEF IngestInv, FormInScript, Uploads
<1>7. FilesSoFar'
  BY <1>1, <1>2 DEF IngestInv, FilesSoFar, Kept, Content, InProgress
<1>8. CompleteWhenAccepted'
  BY <1>1, <1>2, <1>4, IngestAssumption DEF IngestInv, CompleteWhenAccepted, Complete, Uploads
<1>9. ShownRunIsOfTheDataset'
  BY DEF IngestInv, ShownRunIsOfTheDataset, Interrupt, CrashApp
<1> QED
  BY <1>5, <1>6, <1>7, <1>8, <1>9 DEF IngestInv

LEMMA IngestStep == IngestInv /\ [Next]_vars => IngestInv'
<1> SUFFICES ASSUME IngestInv, [Next]_vars PROVE IngestInv'
  OBVIOUS
<1>1. CASE UNCHANGED vars
  BY <1>1 DEF vars, IngestInv, IngestTypeOK, FormInScript, FilesSoFar, CompleteWhenAccepted,
              ShownRunIsOfTheDataset, Kept, Content, Complete
<1>2. CASE \E u \in Uploads : Upload(u)
  BY <1>2, BeginKeeps, WriteKeeps, CheckKeeps, EndKeeps DEF Upload
<1> QED
  BY <1>1, <1>2, CrashApiKeeps, ScriptKeeps, StopKeeps DEF Next

LEMMA IngestKeeps == Spec => []IngestInv
  BY IngestStarts, IngestStep, PTL DEF Spec

-----------------------------------------------------------------------------
\* Uploads, directories, session and script always fit together: above all, an upload of
\* the form is under way only in the one script of its session.
THEOREM IngestTyped == Spec => [](IngestTypeOK /\ FormInScript)
<1>1. IngestInv => IngestTypeOK /\ FormInScript
  BY DEF IngestInv
<1> QED
  BY IngestKeeps, <1>1, PTL

\* A dataset in the log, in an answer or in a session has its three files, whole and
\* within both limits, however many uploads are rejected, stopped or crash beside it.
THEOREM OnlyCompleteAccepted == Spec => []AcceptedIsComplete
<1>1. IngestInv => AcceptedIsComplete
  <2> SUFFICES ASSUME IngestInv PROVE AcceptedIsComplete
    OBVIOUS
  <2>1. ASSUME NEW u \in Uploads, u \in recorded \/ dataset = u PROVE Complete(u)
    BY <2>1, IngestAssumption DEF IngestInv, IngestTypeOK, CompleteWhenAccepted, Uploads
  <2> QED
    BY <2>1 DEF IngestInv, CompleteWhenAccepted, AcceptedIsComplete
<1> QED
  BY IngestKeeps, <1>1, PTL

\* The run the pages show is one on the session's dataset, wherever Streamlit stopped
\* the script but in the middle of a switch.
THEOREM ShownMatchesChosen == Spec => []ShownRunIsOfTheDataset
<1>1. IngestInv => ShownRunIsOfTheDataset
  BY DEF IngestInv
<1> QED
  BY IngestKeeps, <1>1, PTL
=============================================================================
