---------------------------- MODULE CallsProofs ----------------------------
(***************************************************************************)
(* Theorems about Calls, for every value of its constants: downloads,      *)
(* research, receipts, chat submissions and the evidence of an answer; at  *)
(* the end, what CredentialsProofs proves is brought to the specification  *)
(* the run checks, each part of which is an instance of its component.     *)
(* Request scopes, reads, canvas and history are in CallReadsProofs.       *)
(***************************************************************************)
EXTENDS Calls, TLAPS, SequenceTheorems

-----------------------------------------------------------------------------
(* The file names of downloads                                             *)

LEMMA FilesNone == F!NoFile \notin F!Files /\ F!NoName \notin F!Names
BY DEF F!NoFile, F!Files, F!NoName, F!Names

\* A step of a task touches no file but its own and the free names, and what
\* it leaves there is its own or nothing.
FilesTouched(t) ==
    /\ \A n \in F!Names : \/ c1'[n] = c1[n]
                        \/ /\ c1[n] = F!NoFile \/ n \in F!Owned(t)
                           /\ c1'[n] = F!NoFile \/ (c1'[n] \in F!Files /\ c1'[n].by = t)
    /\ \A u \in Tasks \ {t} : c2'[u] = c2[u] /\ c4'[u] = c4[u] /\ c5'[u] = c5[u]

\* So what the others are accountable for stays as it is.
LEMMA FilesOfOthers ==
    ASSUME NEW t \in Tasks, F!Typed, FilesTouched(t), NEW u \in Tasks \ {t}, F!Accounted(u)
    PROVE  F!Accounted(u)'
<1>1. /\ c2'[u] = c2[u] /\ c4'[u] = c4[u] /\ c5'[u] = c5[u]
  BY DEF FilesTouched
<1>2. \A n \in F!Names : n \in F!Owned(u) => c1'[n] = c1[n] /\ n \in F!Owned(u)'
  BY FilesNone DEF FilesTouched, F!Owned
<1>3. \A n \in F!Names : n \in F!Owned(u)' => n \in F!Owned(u)
  BY FilesNone DEF FilesTouched, F!Owned
<1>4. F!Owned(u)' = F!Owned(u)
  BY <1>2, <1>3 DEF F!Owned
<1>5. \A n \in F!Owned(u) : c1'[n] = c1[n]
  BY <1>2 DEF F!Owned
<1> QED
  BY <1>1, <1>4, <1>5 DEF F!Accounted

LEMMA FilesInit ==
    ASSUME MaxIndex \in Nat \ {0}, F!Init  PROVE F!Inv
<1>1. 1 \in 1..MaxIndex
  OBVIOUS
<1>2. F!Typed
  BY <1>1 DEF F!Init, F!Typed, F!Places
<1>3. \A t \in Tasks : F!Owned(t) = {}
  BY FilesNone DEF F!Init, F!Owned
<1> QED
  BY <1>2, <1>3 DEF F!Init, F!Inv, F!Accounted

LEMMA FilesReserve ==
    ASSUME MaxIndex \in Nat \ {0}, F!Inv, NEW t \in Tasks, F!Reserve(t)
    PROVE  F!Typed' /\ FilesTouched(t) /\ F!Accounted(t)'
<1>0. F!Typed /\ F!Accounted(t)
  BY DEF F!Inv
<1>1. PICK c : c = F!Candidate(t)
  OBVIOUS
<1>2. c \in F!Names /\ (c2[t] \in {"reserve", "realign"}) /\ c2[t] \in F!Places
  BY <1>0, <1>1 DEF F!Candidate, F!Name, F!Names, F!Suffix, F!Typed, F!Reserve
<1>3. CASE F!Taken(c)
  <2>1. /\ c3[t] < MaxIndex /\ c3' = [c3 EXCEPT ![t] = @ + 1]
        /\ UNCHANGED <<c1, c4, c2, c5>>
    BY <1>1, <1>3 DEF F!Reserve
  <2>2. c3[t] + 1 \in 1..MaxIndex
    BY <1>0, <2>1 DEF F!Typed
  <2>3. F!Typed'
    BY <1>0, <2>1, <2>2 DEF F!Typed
  <2>4. FilesTouched(t)
    BY <2>1 DEF FilesTouched
  <2>5. F!Owned(t)' = F!Owned(t)
    BY <2>1 DEF F!Owned
  <2> QED
    BY <1>0, <2>1, <2>3, <2>4, <2>5 DEF F!Accounted
<1>4. CASE ~F!Taken(c)
  <2>1. /\ c1' = [c1 EXCEPT ![c] = [by |-> t, content |-> "empty"]]
        /\ c4' = [c4 EXCEPT ![t] = c]
        /\ c2' = [c2 EXCEPT ![t] = IF c2[t] = "reserve" THEN "save" ELSE "rename"]
        /\ UNCHANGED <<c3, c5>>
    BY <1>1, <1>4 DEF F!Reserve, F!Go
  <2>2. c1[c] = F!NoFile
    BY <1>4 DEF F!Taken, F!Free
  <2>3. [by |-> t, content |-> "empty"] \in F!Files
    BY DEF F!Files
  <2>4. F!Typed'
    BY <1>0, <1>2, <2>1, <2>3 DEF F!Typed, F!Places
  <2>5. FilesTouched(t)
    BY <1>0, <1>2, <2>1, <2>2, <2>3 DEF FilesTouched, F!Typed
  <2>6. F!Owned(t)' = F!Owned(t) \cup {c}
    BY <1>0, <1>2, <2>1, <2>2, <2>3, FilesNone DEF F!Owned, F!Typed
  <2>7. c \notin F!Owned(t) /\ F!Owned(t) \subseteq F!Names
    BY <2>2, FilesNone DEF F!Owned
  <2>8. CASE c2[t] = "reserve"
    <3>1. c5'[t] = F!NoName /\ F!Owned(t)' = {c} /\ c4'[t] = c /\ c2'[t] = "save"
      BY <1>0, <2>1, <2>6, <2>8 DEF F!Accounted, F!Typed
    <3> QED
      BY <2>4, <2>5, <3>1 DEF F!Accounted
  <2>9. CASE c2[t] = "realign"
    <3>1. /\ c5'[t] = c5[t] /\ F!Owned(t)' = {c, c5[t]} /\ c4'[t] = c
          /\ c2'[t] = "rename" /\ c # c5[t] /\ c5[t] \in F!Names
      BY <1>0, <2>1, <2>6, <2>7, <2>9 DEF F!Accounted, F!Typed
    <3>2. c1'[c5[t]].content = "media"
      BY <1>0, <1>2, <2>1, <2>9, <3>1 DEF F!Accounted, F!Typed
    <3> QED
      BY <2>4, <2>5, <3>1, <3>2 DEF F!Accounted
  <2> QED
    BY <1>2, <2>8, <2>9
<1> QED
  BY <1>3, <1>4

LEMMA FilesSave ==
    ASSUME F!Inv, NEW t \in Tasks, F!Save(t)
    PROVE  F!Typed' /\ FilesTouched(t) /\ F!Accounted(t)'
<1>0. F!Typed /\ F!Accounted(t)
  BY DEF F!Inv
<1>1. PICK content \in {"empty", "partial", "media"} :
        /\ c1' = [c1 EXCEPT ![c4[t]] = [@ EXCEPT !.content = content]]
        /\ (content = "media" /\ c5' = [c5 EXCEPT ![t] = c4[t]]) \/ UNCHANGED c5
  BY DEF F!Save
<1>2. c2[t] = "save" /\ c2' = [c2 EXCEPT ![t] = "release"] /\ UNCHANGED <<c3, c4>>
  BY DEF F!Save, F!Go
<1> DEFINE n == c4[t]
           f == [c1[n] EXCEPT !.content = content]
<1>3. c5[t] = F!NoName /\ F!Owned(t) = {n}
  BY <1>0, <1>2 DEF F!Accounted
<1>4. n \in F!Names /\ c1[n] \in F!Files /\ c1[n].by = t
  BY <1>3 DEF F!Owned
<1>5. f \in F!Files /\ f.by = t /\ f.content = content
  BY <1>4 DEF F!Files
<1>6. c1' = [c1 EXCEPT ![n] = f] /\ c4' = c4
  BY <1>1, <1>2
<1> HIDE DEF f, n
<1>7. F!Typed'
  <2>1. c1' \in [F!Names -> F!Files \cup {F!NoFile}]
    BY <1>0, <1>4, <1>5, <1>6 DEF F!Typed
  <2>2. c5' \in [Tasks -> F!Names \cup {F!NoName}]
    BY <1>0, <1>1, <1>4 DEF F!Typed, n
  <2> QED
    BY <1>0, <1>2, <2>1, <2>2 DEF F!Typed, F!Places
<1>8. FilesTouched(t)
  BY <1>0, <1>1, <1>2, <1>3, <1>4, <1>5, <1>6 DEF FilesTouched, F!Typed
<1>9. F!Owned(t)' = {n}
  <2>1. \A m \in F!Names : m # n => (m \in F!Owned(t)' <=> m \in F!Owned(t))
    BY <1>0, <1>4, <1>6 DEF F!Owned, F!Typed
  <2>2. n \in F!Owned(t)'
    BY <1>0, <1>4, <1>5, <1>6 DEF F!Owned, F!Typed
  <2> QED
    BY <1>3, <2>1, <2>2 DEF F!Owned
<1>10. c5'[t] \in {F!NoName, n} /\ (c5'[t] = n => c1'[n].content = "media")
  BY <1>0, <1>1, <1>3, <1>4, <1>5, <1>6, FilesNone DEF F!Typed, n
<1>11. c4'[t] = n /\ c2'[t] = "release"
  BY <1>0, <1>2, <1>6 DEF F!Typed, n
<1> QED
  BY <1>7, <1>8, <1>9, <1>10, <1>11 DEF F!Accounted

LEMMA FilesRelease ==
    ASSUME MaxIndex \in Nat \ {0}, F!Inv, NEW t \in Tasks, F!Release(t)
    PROVE  F!Typed' /\ FilesTouched(t) /\ F!Accounted(t)'
<1>0. F!Typed /\ F!Accounted(t)
  BY DEF F!Inv
<1> DEFINE n == c4[t]
<1>1. /\ c2[t] = "release" /\ UNCHANGED <<c4, c5>>
      /\ c1' = IF F!Mine(t) /\ F!Unwanted(t) THEN [c1 EXCEPT ![n] = F!NoFile] ELSE c1
  BY DEF F!Release
<1>2. \/ c2' = [c2 EXCEPT ![t] = "ended"] /\ UNCHANGED c3
      \/ /\ c5[t] # F!NoName
         /\ c2' = [c2 EXCEPT ![t] = "realign"] /\ c3' = [c3 EXCEPT ![t] = 1]
  BY DEF F!Release, F!Go
<1>3. /\ c5[t] \in {F!NoName, n} /\ F!Owned(t) = {n}
      /\ c5[t] = n => c1[n].content = "media"
  BY <1>0, <1>1 DEF F!Accounted
<1>4. n \in F!Names /\ c1[n] \in F!Files /\ c1[n].by = t /\ n # F!NoName
  BY <1>3, FilesNone DEF F!Owned
<1>5. c1' = IF c5[t] = n THEN c1 ELSE [c1 EXCEPT ![n] = F!NoFile]
  BY <1>1, <1>3, <1>4 DEF F!Mine, F!Unwanted
<1> HIDE DEF n
<1>6. F!Typed'
  <2>1. c1' \in [F!Names -> F!Files \cup {F!NoFile}]
    BY <1>0, <1>4, <1>5 DEF F!Typed
  <2> QED
    BY <1>0, <1>1, <1>2, <2>1 DEF F!Typed, F!Places
<1>7. FilesTouched(t)
  BY <1>0, <1>1, <1>2, <1>3, <1>4, <1>5 DEF FilesTouched, F!Typed
<1>8. CASE c5[t] = n
  <2>1. F!Owned(t)' = {c5'[t]} /\ c1'[c5'[t]].content = "media" /\ c5'[t] # F!NoName
    BY <1>1, <1>3, <1>4, <1>5, <1>8 DEF F!Owned
  <2> QED
    BY <1>0, <1>2, <1>6, <1>7, <2>1 DEF F!Accounted, F!Typed
<1>9. CASE c5[t] # n
  <2>1. c5'[t] = F!NoName /\ c2'[t] = "ended"
    BY <1>0, <1>1, <1>2, <1>3, <1>9 DEF F!Typed
  <2>2. F!Owned(t)' = {}
    BY <1>0, <1>3, <1>4, <1>5, <1>9, FilesNone DEF F!Owned, F!Typed
  <2> QED
    BY <1>6, <1>7, <2>1, <2>2 DEF F!Accounted
<1> QED
  BY <1>8, <1>9

LEMMA FilesRename ==
    ASSUME F!Inv, NEW t \in Tasks, F!Rename(t)
    PROVE  F!Typed' /\ FilesTouched(t) /\ F!Accounted(t)'
<1>0. F!Typed /\ F!Accounted(t)
  BY DEF F!Inv
<1> DEFINE n == c4[t]
           k == c5[t]
<1>1. /\ c2[t] = "rename" /\ UNCHANGED <<c3, c4>>
      /\ c2' = [c2 EXCEPT ![t] = "ended"]
  BY DEF F!Rename, F!Go
<1>2. F!Owned(t) = {n, k} /\ n # k /\ c1[k].content = "media"
  BY <1>0, <1>1 DEF F!Accounted
<1>3. /\ n \in F!Names /\ c1[n] \in F!Files /\ c1[n].by = t
      /\ k \in F!Names /\ c1[k] \in F!Files /\ c1[k].by = t
  BY <1>2 DEF F!Owned
<1>4. \/ /\ c1' = [c1 EXCEPT ![n] = c1[k], ![k] = F!NoFile]
         /\ c5' = [c5 EXCEPT ![t] = n]
      \/ c1' = [c1 EXCEPT ![n] = F!NoFile] /\ UNCHANGED c5
  BY <1>3 DEF F!Rename, F!Mine
<1> HIDE DEF n
<1>5. F!Typed'
  <2>1. c1' \in [F!Names -> F!Files \cup {F!NoFile}]
    BY <1>0, <1>3, <1>4 DEF F!Typed
  <2>2. c5' \in [Tasks -> F!Names \cup {F!NoName}]
    BY <1>0, <1>3, <1>4 DEF F!Typed
  <2> QED
    BY <1>0, <1>1, <2>1, <2>2 DEF F!Typed, F!Places
<1>6. FilesTouched(t)
  <2> HIDE DEF k
  <2>1. \A m \in F!Names : \/ c1'[m] = c1[m]
                         \/ /\ m \in F!Owned(t)
                            /\ c1'[m] = F!NoFile \/ (c1'[m] \in F!Files /\ c1'[m].by = t)
    BY <1>0, <1>2, <1>3, <1>4 DEF F!Typed
  <2>2. \A u \in Tasks \ {t} : c5'[u] = c5[u]
    BY <1>0, <1>4 DEF F!Typed
  <2> QED
    BY <1>0, <1>1, <2>1, <2>2 DEF FilesTouched, F!Typed
<1>7. c5'[t] \in F!Names /\ F!Owned(t)' = {c5'[t]} /\ c1'[c5'[t]].content = "media"
  <2>1. CASE /\ c1' = [c1 EXCEPT ![n] = c1[k], ![k] = F!NoFile]
             /\ c5' = [c5 EXCEPT ![t] = n]
    <3>1. c5'[t] = n /\ c1'[n] = c1[k] /\ c1'[k] = F!NoFile
      BY <1>0, <1>2, <1>3, <2>1 DEF F!Typed
    <3>2. \A m \in F!Names \ {n, k} : c1'[m] = c1[m]
      BY <1>0, <2>1 DEF F!Typed
    <3> QED
      BY <1>2, <1>3, <3>1, <3>2, FilesNone DEF F!Owned
  <2>2. CASE c1' = [c1 EXCEPT ![n] = F!NoFile] /\ UNCHANGED c5
    <3>1. c5'[t] = k /\ c1'[n] = F!NoFile /\ \A m \in F!Names \ {n} : c1'[m] = c1[m]
      BY <1>0, <1>3, <2>2 DEF F!Typed
    <3> QED
      BY <1>2, <1>3, <3>1, FilesNone DEF F!Owned
  <2> QED
    BY <1>4, <2>1, <2>2
<1>8. c2'[t] = "ended"
  BY <1>0, <1>1 DEF F!Typed
<1> QED
  BY <1>5, <1>6, <1>7, <1>8, FilesNone DEF F!Accounted

LEMMA FilesStep ==
    ASSUME MaxIndex \in Nat \ {0}, F!Inv, [F!Next]_(F!fvars)  PROVE F!Inv'
<1>1. CASE F!Next
  <2>1. PICK t \in Tasks : F!Reserve(t) \/ F!Save(t) \/ F!Release(t) \/ F!Rename(t)
    BY <1>1 DEF F!Next
  <2>2. F!Typed' /\ FilesTouched(t) /\ F!Accounted(t)'
    BY <2>1, FilesReserve, FilesSave, FilesRelease, FilesRename
  <2>3. \A u \in Tasks \ {t} : F!Accounted(u)'
    BY <2>2, FilesOfOthers DEF F!Inv
  <2> QED
    BY <2>2, <2>3 DEF F!Inv
<1>2. CASE UNCHANGED F!fvars
  BY <1>2 DEF F!fvars, F!Inv, F!Typed, F!Accounted, F!Owned
<1> QED
  BY <1>1, <1>2

LEMMA FilesKept ==
    ASSUME F!Inv  PROVE F!ReturnedIsThere /\ F!NothingLeftBehind
<1>0. F!Typed
  BY DEF F!Inv
<1>1. F!ReturnedIsThere
  <2> SUFFICES ASSUME NEW t \in Tasks, c2[t] = "ended", c5[t] # F!NoName
               PROVE  c1[c5[t]] = [by |-> t, content |-> "media"]
    BY DEF F!ReturnedIsThere
  <2>1. c5[t] \in F!Owned(t) /\ c1[c5[t]].content = "media"
    BY DEF F!Inv, F!Accounted
  <2>2. c1[c5[t]] \in F!Files /\ c1[c5[t]].by = t
    BY <2>1 DEF F!Owned
  <2> QED
    BY <2>1, <2>2 DEF F!Files
<1>2. F!NothingLeftBehind
  <2> SUFFICES ASSUME NEW n \in F!Names, c1[n] # F!NoFile, c2[c1[n].by] = "ended"
               PROVE  c5[c1[n].by] = n
    BY DEF F!NothingLeftBehind
  <2>1. c1[n] \in F!Files /\ c1[n].by \in Tasks
    BY <1>0 DEF F!Typed, F!Files
  <2>2. n \in F!Owned(c1[n].by)
    BY <2>1 DEF F!Owned
  <2> QED
    BY <2>1, <2>2 DEF F!Inv, F!Accounted
<1> QED
  BY <1>1, <1>2

FilesPart == part = "media files" => F!Inv

(* In every behaviour of the calls, whatever the number of tasks and of    *)
(* candidate names, what a finished download returned is its own file,     *)
(* still there, and it left neither a reservation nor a partial file       *)
(* behind: tasks meet only in the exclusive creation of a name             *)
(* (media_generation.py, _reserve_media_filename, _FilenameReservation).   *)
THEOREM DownloadsKept == Spec => []DownloadsAreKept
<1>1. Init => FilesPart
  BY ValuesAssumption, FilesInit DEF Init, FilesPart
<1>2. FilesPart /\ [Next]_vars => FilesPart'
  <2> SUFFICES ASSUME FilesPart, [Next]_vars, part' = "media files"
               PROVE  F!Inv'
    BY DEF FilesPart
  <2>1. part = "media files" /\ [F!Next]_(F!fvars)
    BY DEF Next, vars, cells, F!fvars
  <2> QED
    BY <2>1, ValuesAssumption, FilesStep DEF FilesPart
<1>3. FilesPart => DownloadsAreKept
  BY FilesKept DEF FilesPart, DownloadsAreKept
<1> QED
  BY <1>1, <1>2, <1>3, PTL DEF Spec

-----------------------------------------------------------------------------
(* The report of a research.  Of its cells, c3 is upstream, c4 gone, c5     *)
(* posts, c6 seen, c7 kept, c9 followed, c10 row, c11 holder, c12 file,     *)
(* c13 pc, c14 body and c15 told.                                          *)

ResearchPart == part = "research" => R!Inv

LEMMA ResearchInit == R!Init => R!Inv
<1> SUFFICES ASSUME R!Init
             PROVE  R!Inv
  OBVIOUS
<1>1. R!Typed
  <2>1. c13 \in [R!Actors -> R!Steps]
    BY DEF R!Init, R!Steps
  <2>2. /\ c14 \in [R!Actors -> R!Bodies \cup {"none"}]
        /\ c15 \in [R!Actors -> R!States \cup {"nothing", "different_content"}]
    BY DEF R!Init
  <2>3. /\ c10 \in [state: R!States, source: BOOLEAN, report: BOOLEAN]
        /\ c5 \in [{"plan", "start", "followup"} -> Nat]
    BY DEF R!Init, R!States
  <2>4. c11 \in R!Actors \cup {"nobody"}
    BY DEF R!Init, R!Actors
  <2> QED
    BY <2>1, <2>2, <2>3, <2>4 DEF R!Init, R!Typed
<1>2. /\ R!PostsByPlace /\ R!ReportByPlace /\ R!SubmittedOnce
      /\ R!ReportBeforeDisposal /\ R!CompletedHasReport /\ R!SourceIsKept
  BY DEF R!Init, R!Actors, R!PostsByPlace, R!ReportByPlace, R!SubmittedOnce,
    R!ReportBeforeDisposal, R!CompletedHasReport, R!SourceIsKept
<1> QED
  BY <1>1, <1>2 DEF R!Inv

(* A step of an actor that is neither planning nor starting, that leaves    *)
(* the chat alone and does not post: what it does to the row decides.       *)
LEMMA ResearchFinish ==
    ASSUME R!Inv, NEW a \in R!Actors, NEW state \in R!States,
           R!Finish(a, state), state = "completed" => c10.report,
           c13["owner"] \in {"plan", "start", "crashed"} => a # "owner",
           UNCHANGED <<R!settings, R!remote, c8, c9, c12>>,
           c14' \in [R!Actors -> R!Bodies \cup {"none"}], 
           \A b \in R!Actors \ {a} : c14'[b] = c14[b]
    PROVE  R!Inv'
<1> USE DEF R!Inv
<1>1. c10' \in {c10, R!Settled(state)} /\ c11' \in R!Actors \cup {"nobody"}
  BY DEF R!Finish, R!Typed
<1>2. /\ c10' \in [state: R!States, source: BOOLEAN, report: BOOLEAN]
      /\ c10'.source = c10.source /\ c10'.report = c10.report
      /\ c10'.state = "completed" => c10.report
  BY <1>1 DEF R!Settled, R!Typed, R!States, R!Terminal, R!CompletedHasReport
<1>3. /\ c13' = [c13 EXCEPT ![a] = "ended"] /\ c15' = [c15 EXCEPT ![a] = state]
  BY DEF R!Finish, R!Go
<1>4. UNCHANGED <<c1, c2, c3, c4, c5, c6, c7, c8, c9, c12>>
  BY DEF R!settings, R!remote
<1>5. R!Typed'
  BY <1>1, <1>2, <1>3, <1>4 DEF R!Typed, R!Steps
<1>6. R!PostsByPlace'
  BY <1>3, <1>4 DEF R!PostsByPlace, R!Typed, R!Actors
<1>7. R!ReportByPlace'
  BY <1>2, <1>3, <1>4 DEF R!ReportByPlace, R!Typed
<1>8. R!SubmittedOnce' /\ R!ReportBeforeDisposal'
  BY <1>2, <1>4 DEF R!SubmittedOnce, R!ReportBeforeDisposal
<1>9. R!CompletedHasReport'
  BY <1>2, <1>3, <1>4 DEF R!CompletedHasReport, R!Typed, R!ReportByPlace
<1>10. R!SourceIsKept'
  BY <1>2, <1>3, <1>4 DEF R!SourceIsKept, R!Typed, R!Actors
<1> QED
  BY <1>5, <1>6, <1>7, <1>8, <1>9, <1>10

LEMMA ResearchPhaseFails ==
    ASSUME R!Inv, NEW kind \in {"plan", "start"}, NEW arrived \in {"planned", "running"},
           c13["owner"] = kind, R!PhaseFails(kind, arrived)
    PROVE  R!Inv'
<1> USE DEF R!Inv
<1>1. /\ UNCHANGED <<c1, c2, c4, c8, c9, c11, c12, c14, c15>>
      /\ c5' = [c5 EXCEPT ![kind] = @ + 1]
      /\ c13' = [c13 EXCEPT !["owner"] = "fails"]
      /\ c3' \in {c3, arrived} /\ c6' \in {c6, c6 \/ c3' # "none"}
  BY DEF R!PhaseFails, R!Posted, R!Go, R!settings, R!PreserveFailed, R!Preserve, R!Disposal
<1>2. c6' \in BOOLEAN
  BY <1>1 DEF R!Typed
<1>3. /\ c6' => c10' = [c10 EXCEPT !.source = TRUE] /\ c7' = TRUE
      /\ ~c6' => c10' = c10 /\ c7' = c7
  BY DEF R!PhaseFails, R!PreserveFailed, R!Preserve, R!Disposal
<1>4. /\ c10' \in [state: R!States, source: BOOLEAN, report: BOOLEAN] /\ c7' \in BOOLEAN
      /\ c10'.state = c10.state /\ c10'.report = c10.report
      /\ c6' => c10'.source /\ c7'
  BY <1>2, <1>3 DEF R!Typed
<1>5. R!Typed'
  <2>1. c13' \in [R!Actors -> R!Steps]
    BY <1>1 DEF R!Typed, R!Steps
  <2>2. c5' \in [{"plan", "start", "followup"} -> Nat]
    BY <1>1 DEF R!Typed
  <2> QED
    BY <1>1, <1>2, <1>4, <2>1, <2>2 DEF R!Typed
<1>6. R!PostsByPlace'
  BY <1>1 DEF R!PostsByPlace, R!Typed, R!Actors
<1>7. R!ReportByPlace'
  BY <1>1, <1>4 DEF R!ReportByPlace, R!Typed, R!Actors
<1>8. R!SubmittedOnce'
  BY <1>1 DEF R!SubmittedOnce, R!PostsByPlace, R!Typed
<1>9. R!ReportBeforeDisposal' /\ R!CompletedHasReport' /\ R!SourceIsKept'
  BY <1>1, <1>4 DEF R!ReportBeforeDisposal, R!CompletedHasReport, R!SourceIsKept, R!Typed,
    R!Actors
<1> QED
  BY <1>5, <1>6, <1>7, <1>8, <1>9

LEMMA ResearchPlanReturns ==
    ASSUME R!Inv, R!PlanReturns
    PROVE  R!Inv'
<1> USE DEF R!Inv
<1>1. /\ UNCHANGED <<c1, c2, c4, c7, c8, c9, c11, c12, c14, c15>>
      /\ c13["owner"] = "plan" /\ c13' = [c13 EXCEPT !["owner"] = "start"]
      /\ c5' = [c5 EXCEPT !["plan"] = @ + 1] /\ c3' = "planned" /\ c6' = TRUE
      /\ c10' = [c10 EXCEPT !.source = TRUE]
  BY DEF R!PlanReturns, R!Posted, R!Go, R!settings
<1>2. R!Typed'
  <2>1. c13' \in [R!Actors -> R!Steps]
    BY <1>1 DEF R!Typed, R!Steps
  <2>2. c5' \in [{"plan", "start", "followup"} -> Nat]
    BY <1>1 DEF R!Typed
  <2>3. c10' \in [state: R!States, source: BOOLEAN, report: BOOLEAN]
    BY <1>1 DEF R!Typed
  <2> QED
    BY <1>1, <2>1, <2>2, <2>3 DEF R!Typed
<1>3. R!PostsByPlace' /\ R!SubmittedOnce'
  BY <1>1 DEF R!PostsByPlace, R!SubmittedOnce, R!Typed, R!Actors
<1>4. R!ReportByPlace'
  BY <1>1 DEF R!ReportByPlace, R!Typed, R!Actors
<1>5. R!ReportBeforeDisposal' /\ R!CompletedHasReport' /\ R!SourceIsKept'
  BY <1>1 DEF R!ReportBeforeDisposal, R!CompletedHasReport, R!SourceIsKept, R!Typed, R!Actors
<1> QED
  BY <1>2, <1>3, <1>4, <1>5

LEMMA ResearchStartReturns ==
    ASSUME R!Inv, R!StartReturns
    PROVE  R!Inv'
<1> USE DEF R!Inv
<1>1. /\ UNCHANGED <<c1, c2, c4, c6, c8, c9, c11, c12, c15>>
      /\ c13["owner"] = "start"
      /\ c5' = [c5 EXCEPT !["start"] = @ + 1] /\ c3' \in {"running", "done"}
  BY DEF R!StartReturns, R!Posted, R!settings, R!Preserve, R!Disposal
<1>2. /\ c6 => c10' = [c10 EXCEPT !.source = TRUE] /\ c7' = TRUE
      /\ ~c6 => c10' = c10 /\ c7' = c7
  BY <1>1 DEF R!StartReturns, R!Preserve, R!Disposal
<1>3. /\ c10' \in [state: R!States, source: BOOLEAN, report: BOOLEAN] /\ c7' \in BOOLEAN
      /\ c10'.state = c10.state /\ c10'.report = c10.report
      /\ c6 => c10'.source /\ c7'
  BY <1>2 DEF R!Typed
<1>4. PICK step \in {"link", "report_state", "wait"} :
        /\ c13' = [c13 EXCEPT !["owner"] = step]
        /\ step = "link" => c14' = [c14 EXCEPT !["owner"] = "document"]
        /\ step # "link" => c14' = c14
  BY DEF R!StartReturns, R!Go
<1>5. R!Typed'
  <2>1. c13' \in [R!Actors -> R!Steps]
    BY <1>4 DEF R!Typed, R!Steps
  <2>2. c5' \in [{"plan", "start", "followup"} -> Nat]
    BY <1>1 DEF R!Typed
  <2>3. c14' \in [R!Actors -> R!Bodies \cup {"none"}]
    BY <1>4 DEF R!Typed, R!Bodies
  <2> QED
    BY <1>1, <1>3, <2>1, <2>2, <2>3 DEF R!Typed
<1>6. R!PostsByPlace' /\ R!SubmittedOnce'
  BY <1>1, <1>4 DEF R!PostsByPlace, R!SubmittedOnce, R!Typed, R!Actors
<1>7. R!ReportByPlace'
  BY <1>1, <1>3, <1>4 DEF R!ReportByPlace, R!Typed, R!Actors
<1>8. R!ReportBeforeDisposal' /\ R!CompletedHasReport' /\ R!SourceIsKept'
  BY <1>1, <1>3, <1>4 DEF R!ReportBeforeDisposal, R!CompletedHasReport, R!SourceIsKept,
    R!Typed, R!Actors
<1> QED
  BY <1>5, <1>6, <1>7, <1>8

(* An actor goes on to another step, perhaps with a text for the report;    *)
(* nothing else changes.                                                   *)
LEMMA ResearchGoes ==
    ASSUME R!Inv, NEW a \in R!Actors, NEW step \in R!Steps,
           c13' = [c13 EXCEPT ![a] = step], UNCHANGED <<R!settings, R!remote, c8, c9, c10, c12, c15>>,
           c11' \in R!Actors \cup {"nobody"}, c14' \in [R!Actors -> R!Bodies \cup {"none"}],
           \A b \in R!Actors \ {a} : c14'[b] = c14[b],
           a = "owner" => c13["owner"] \notin {"plan", "start", "crashed"} \/ step = "crashed",
           step \notin {"plan", "start", "dispose"}, step = "followup" => ~c9,
           step = "link" => c14'[a] # "none", step = "observe" => c12 # "none"
    PROVE  R!Inv'
<1> USE DEF R!Inv
<1>1. UNCHANGED <<c1, c2, c3, c4, c5, c6, c7>>
  BY DEF R!settings, R!remote
<1>2. R!Typed'
  <2>1. c13' \in [R!Actors -> R!Steps]
    BY DEF R!Typed
  <2> QED
    BY <1>1, <2>1 DEF R!Typed
<1>3. R!PostsByPlace' /\ R!SubmittedOnce'
  BY <1>1 DEF R!PostsByPlace, R!SubmittedOnce, R!Typed, R!Actors
<1>4. R!ReportByPlace'
  BY <1>1 DEF R!ReportByPlace, R!Typed
<1>5. R!ReportBeforeDisposal' /\ R!CompletedHasReport'
  BY <1>1 DEF R!ReportBeforeDisposal, R!CompletedHasReport
<1>6. R!SourceIsKept'
  BY <1>1 DEF R!SourceIsKept, R!Typed, R!Actors
<1> QED
  BY <1>2, <1>3, <1>4, <1>5, <1>6

LEMMA ResearchRequestReport ==
    ASSUME R!Inv, R!RequestReport
    PROVE  R!Inv'
<1> USE DEF R!Inv
<1>1. /\ UNCHANGED <<c1, c2, c3, c4, c6, c7, c8, c10, c11, c12, c15>>
      /\ c13["owner"] = "followup" /\ c9' = TRUE
      /\ c5' = [c5 EXCEPT !["followup"] = @ + 1]
  BY DEF R!RequestReport, R!Posted, R!Marked, R!settings
<1>2. PICK step \in {"link", "sleep"} :
        /\ c13' = [c13 EXCEPT !["owner"] = step]
        /\ step = "link" => c14' = [c14 EXCEPT !["owner"] = "with_sources"]
        /\ step = "sleep" => c14' = c14
  BY DEF R!RequestReport, R!Go
<1>3. R!Typed'
  <2>1. c13' \in [R!Actors -> R!Steps]
    BY <1>2 DEF R!Typed, R!Steps
  <2>2. c5' \in [{"plan", "start", "followup"} -> Nat]
    BY <1>1 DEF R!Typed
  <2>3. c14' \in [R!Actors -> R!Bodies \cup {"none"}]
    BY <1>2 DEF R!Typed, R!Bodies
  <2> QED
    BY <1>1, <2>1, <2>2, <2>3 DEF R!Typed
<1>4. R!PostsByPlace' /\ R!SubmittedOnce'
  BY <1>1, <1>2 DEF R!PostsByPlace, R!SubmittedOnce, R!Typed, R!Actors
<1>5. R!ReportByPlace'
  BY <1>1, <1>2 DEF R!ReportByPlace, R!Typed, R!Actors
<1>6. R!ReportBeforeDisposal' /\ R!CompletedHasReport' /\ R!SourceIsKept'
  BY <1>1, <1>2 DEF R!ReportBeforeDisposal, R!CompletedHasReport, R!SourceIsKept, R!Typed,
    R!Actors
<1> QED
  BY <1>3, <1>4, <1>5, <1>6

LEMMA ResearchLink ==
    ASSUME R!Inv, NEW a \in R!Actors, R!Link(a)
    PROVE  R!Inv'
<1> USE DEF R!Inv
<1>1. UNCHANGED <<c1, c2, c3, c4, c5, c6, c7, c8, c9, c14>> /\ c13[a] = "link"
  BY DEF R!Link, R!settings, R!remote
<1>2. /\ c12' \in R!Bodies \cup {"none"} /\ (c12 # "none" => c12' = c12)
  BY DEF R!Link, R!Linked, R!Typed
<1>3. /\ c10' \in {c10, R!Settled("failed")} /\ c11' \in R!Actors \cup {"nobody"}
      /\ c15' \in {c15, [c15 EXCEPT ![a] = "different_content"]}
  BY DEF R!Link, R!Typed
<1>4. /\ c10' \in [state: R!States, source: BOOLEAN, report: BOOLEAN]
      /\ c10'.source = c10.source /\ c10'.report = c10.report
      /\ c10'.state = "completed" => c10.state = "completed"
  BY <1>3 DEF R!Settled, R!Typed, R!States, R!Terminal
<1>5. PICK step \in {"observe", "ended"} :
        /\ c13' = [c13 EXCEPT ![a] = step]
        /\ step = "observe" => c12' # "none"
  BY DEF R!Link, R!Linked, R!Go, R!ReportByPlace
<1>6. R!Typed'
  <2>1. c13' \in [R!Actors -> R!Steps]
    BY <1>5 DEF R!Typed, R!Steps
  <2>2. c15' \in [R!Actors -> R!States \cup {"nothing", "different_content"}]
    BY <1>3 DEF R!Typed
  <2> QED
    BY <1>1, <1>2, <1>3, <1>4, <2>1, <2>2 DEF R!Typed
<1>7. R!PostsByPlace' /\ R!SubmittedOnce'
  BY <1>1, <1>5 DEF R!PostsByPlace, R!SubmittedOnce, R!Typed, R!Actors
<1>8. R!ReportByPlace'
  BY <1>1, <1>2, <1>4, <1>5 DEF R!ReportByPlace, R!Typed
<1>9. R!ReportBeforeDisposal' /\ R!CompletedHasReport'
  BY <1>1, <1>2, <1>3, <1>4 DEF R!ReportBeforeDisposal, R!CompletedHasReport, R!Typed
<1>10. R!SourceIsKept'
  BY <1>1, <1>4, <1>5 DEF R!SourceIsKept, R!Typed, R!Actors
<1> QED
  BY <1>6, <1>7, <1>8, <1>9, <1>10

LEMMA ResearchObserve ==
    ASSUME R!Inv, NEW a \in R!Actors, R!ObserveReport(a)
    PROVE  R!Inv'
<1> USE DEF R!Inv
<1>1. /\ UNCHANGED <<c1, c2, c3, c4, c5, c6, c7, c8, c9, c11, c12, c14, c15>>
      /\ c13[a] = "observe" /\ c13' = [c13 EXCEPT ![a] = "dispose"]
      /\ c10' = [c10 EXCEPT !.report = TRUE, !.state = "completed"]
  BY DEF R!ObserveReport, R!Go, R!settings, R!remote
<1>2. R!Typed'
  <2>1. c13' \in [R!Actors -> R!Steps]
    BY <1>1 DEF R!Typed, R!Steps
  <2>2. c10' \in [state: R!States, source: BOOLEAN, report: BOOLEAN]
    BY <1>1 DEF R!Typed, R!States, R!Terminal
  <2> QED
    BY <1>1, <2>1, <2>2 DEF R!Typed
<1>3. R!PostsByPlace' /\ R!SubmittedOnce'
  BY <1>1 DEF R!PostsByPlace, R!SubmittedOnce, R!Typed, R!Actors
<1>4. c10'.report /\ c12' # "none" /\ c10'.source = c10.source
  BY <1>1 DEF R!ReportByPlace, R!Typed
<1>5. R!ReportByPlace'
  BY <1>1, <1>4 DEF R!ReportByPlace, R!Typed
<1>6. R!ReportBeforeDisposal' /\ R!CompletedHasReport' /\ R!SourceIsKept'
  BY <1>1, <1>4 DEF R!ReportBeforeDisposal, R!CompletedHasReport, R!SourceIsKept, R!Typed,
    R!Actors
<1> QED
  BY <1>2, <1>3, <1>5, <1>6

LEMMA ResearchDispose ==
    ASSUME R!Inv, NEW a \in R!Actors, R!Dispose(a)
    PROVE  R!Inv'
<1> USE DEF R!Inv
<1>1. /\ UNCHANGED <<c1, c2, c3, c5, c6, c8, c9, c12, c14>>
      /\ c13[a] = "dispose" /\ c13' = [c13 EXCEPT ![a] = "ended"]
      /\ c15' = [c15 EXCEPT ![a] = "completed"]
  BY DEF R!Dispose, R!Finish, R!Go, R!settings
<1>2. c10.report /\ c12 # "none"
  BY <1>1 DEF R!ReportByPlace
<1>3. /\ c4' \in BOOLEAN /\ c7' \in BOOLEAN /\ (c4 => c4') /\ (c7 => c7')
  <2>1. c4 \in BOOLEAN /\ (c4' = c4 \/ c4' = TRUE)
    BY DEF R!Typed, R!Dispose
  <2>2. c7 \in BOOLEAN /\ (c7' = c7 \/ c7' = TRUE)
    BY DEF R!Typed, R!Dispose
  <2>3. c4' \in BOOLEAN
    BY <2>1
  <2>4. c4 => c4'
    BY <2>1
  <2>5. c7' \in BOOLEAN
    BY <2>2
  <2>6. c7 => c7'
    BY <2>2
  <2> QED
    BY <2>3, <2>4, <2>5, <2>6
<1>4. c10' \in {c10, R!Settled("completed")} /\ c11' \in R!Actors \cup {"nobody"}
  BY DEF R!Dispose, R!Finish, R!Typed
<1>5. /\ c10' \in [state: R!States, source: BOOLEAN, report: BOOLEAN]
      /\ c10'.source = c10.source /\ c10'.report
  BY <1>2, <1>4 DEF R!Settled, R!Typed, R!States, R!Terminal
<1>6. R!Typed'
  <2>1. c13' \in [R!Actors -> R!Steps]
    BY <1>1 DEF R!Typed, R!Steps
  <2>2. c15' \in [R!Actors -> R!States \cup {"nothing", "different_content"}]
    BY <1>1 DEF R!Typed, R!States, R!Terminal
  <2> QED
    BY <1>1, <1>3, <1>4, <1>5, <2>1, <2>2 DEF R!Typed
<1>7. R!PostsByPlace' /\ R!SubmittedOnce'
  BY <1>1 DEF R!PostsByPlace, R!SubmittedOnce, R!Typed, R!Actors
<1>8. R!ReportByPlace'
  BY <1>1, <1>2, <1>5 DEF R!ReportByPlace, R!Typed
<1>9. R!ReportBeforeDisposal' /\ R!CompletedHasReport'
  BY <1>1, <1>2, <1>5 DEF R!ReportBeforeDisposal, R!CompletedHasReport, R!Typed
<1>10. R!SourceIsKept'
  BY <1>1, <1>3, <1>5 DEF R!SourceIsKept, R!Typed, R!Actors
<1> QED
  BY <1>6, <1>7, <1>8, <1>9, <1>10

LEMMA ResearchOwner ==
    ASSUME R!Inv, R!OwnerStep
    PROVE  R!Inv' \/ \E a \in R!Actors : R!SaveFails(a) \/ R!Link(a) \/ R!ObserveReport(a) \/ R!Dispose(a)
<1> "owner" \in R!Actors
  BY DEF R!Actors
<1> c11 \in R!Actors \cup {"nobody"} /\ c14 \in [R!Actors -> R!Bodies \cup {"none"}]
  BY DEF R!Inv, R!Typed
<1> USE DEF R!States, R!Terminal
<1>1. CASE R!PlanReturns
  BY <1>1, ResearchPlanReturns
<1>2. CASE R!PlanFails
  BY <1>2, ResearchPhaseFails DEF R!PlanFails
<1>3. CASE R!StartReturns
  BY <1>3, ResearchStartReturns
<1>4. CASE R!StartFails
  BY <1>4, ResearchPhaseFails DEF R!StartFails
<1>5. CASE R!Fails
  BY <1>5, ResearchFinish DEF R!Fails
<1>6. CASE R!ReportState
  BY <1>6, ResearchFinish DEF R!ReportState
<1>7. CASE R!WaitByID
  <2>1. CASE c14' = [c14 EXCEPT !["owner"] = "document"] /\ R!Go("owner", "link")
             /\ UNCHANGED <<c10, c11, c15>>
    BY <1>7, <2>1, ResearchGoes DEF R!WaitByID, R!Go, R!Bodies, R!Steps
  <2>2. CASE (\E state \in {"failed", "timed_out"} : R!Finish("owner", state)) /\ UNCHANGED c14
    BY <1>7, <2>2, ResearchFinish DEF R!WaitByID
  <2> QED
    BY <1>7, <2>1, <2>2 DEF R!WaitByID
<1>8. CASE R!Poll
  <2>1. CASE R!Finish("owner", "failed") /\ UNCHANGED c14
    BY <1>8, <2>1, ResearchFinish DEF R!Poll
  <2>2. CASE ~ (R!Finish("owner", "failed") /\ UNCHANGED c14)
    <3>1. PICK step \in {"sleep", "link", "followup"} :
            /\ c13' = [c13 EXCEPT !["owner"] = step]
            /\ step = "followup" => ~c9
            /\ step = "link" => \E b \in R!Bodies : c14' = [c14 EXCEPT !["owner"] = b]
            /\ step # "link" => c14' = c14
            /\ UNCHANGED <<c10, c11, c15>>
      BY <1>8, <2>2 DEF R!Poll, R!Go
    <3>2. /\ c14' \in [R!Actors -> R!Bodies \cup {"none"}]
          /\ \A b \in R!Actors \ {"owner"} : c14'[b] = c14[b]
          /\ step = "link" => c14'["owner"] # "none"
      BY <3>1 DEF R!Bodies
    <3>3. UNCHANGED <<R!settings, R!remote, c8, c9, c12>> /\ c13["owner"] = "wait"
      BY <1>8 DEF R!Poll
    <3> QED
      BY <3>1, <3>2, <3>3, ResearchGoes DEF R!Steps
  <2> QED
    BY <1>8, <2>1, <2>2 DEF R!Poll
<1>9. CASE R!RequestReport
  BY <1>9, ResearchRequestReport
<1>10. CASE R!Sleep
  BY <1>10, ResearchGoes DEF R!Sleep, R!Go, R!Steps
<1>11. CASE R!MissesDeadline
  BY <1>11, ResearchFinish DEF R!MissesDeadline
<1> QED
  BY <1>1, <1>2, <1>3, <1>4, <1>5, <1>6, <1>7, <1>8, <1>9, <1>10, <1>11 DEF R!OwnerStep

LEMMA ResearchSaves ==
    ASSUME R!Inv, NEW a \in R!Actors,
           R!SaveFails(a) \/ R!Link(a) \/ R!ObserveReport(a) \/ R!Dispose(a)
    PROVE  R!Inv'
<1> c11 \in R!Actors \cup {"nobody"} /\ c14 \in [R!Actors -> R!Bodies \cup {"none"}]
  BY DEF R!Inv, R!Typed
<1>1. CASE R!SaveFails(a)
  BY <1>1, ResearchFinish DEF R!SaveFails, R!States
<1>2. CASE R!Link(a)
  BY <1>2, ResearchLink
<1>3. CASE R!ObserveReport(a)
  BY <1>3, ResearchObserve
<1>4. CASE R!Dispose(a)
  BY <1>4, ResearchDispose
<1> QED
  BY <1>1, <1>2, <1>3, <1>4

LEMMA ResearchReader ==
    ASSUME R!Inv, NEW a \in R!Actors, R!Recover(a) \/ R!ReadBack(a)
    PROVE  R!Inv'
<1> c11 \in R!Actors \cup {"nobody"} /\ c14 \in [R!Actors -> R!Bodies \cup {"none"}]
  BY DEF R!Inv, R!Typed
<1>1. CASE R!Recover(a)
  BY <1>1, ResearchGoes DEF R!Recover, R!Go, R!Steps
<1>2. CASE R!ReadBack(a)
  <2>1. CASE c14' = [c14 EXCEPT ![a] = "document"] /\ R!Go(a, "link")
             /\ UNCHANGED <<c10, c11, c15>>
    BY <1>2, <2>1, ResearchGoes DEF R!ReadBack, R!Go, R!Bodies, R!Steps
  <2>2. CASE c10.report /\ R!Finish(a, "completed") /\ UNCHANGED c14
    BY <1>2, <2>2, ResearchFinish DEF R!ReadBack, R!States, R!Terminal
  <2>3. CASE (\E state \in {c10.state, "running", "failed"} \ R!Terminal : R!Finish(a, state))
             /\ UNCHANGED c14
    <3>1. c10.state \in R!States
      BY DEF R!Inv, R!Typed
    <3> QED
      BY <1>2, <2>3, <3>1, ResearchFinish DEF R!ReadBack, R!States, R!Terminal
  <2> QED
    BY <1>2, <2>1, <2>2, <2>3 DEF R!ReadBack
<1> QED
  BY <1>1, <1>2

LEMMA ResearchWorld ==
    ASSUME R!Inv, R!ProviderWorks \/ R!LateCallback \/ R!Expire \/ R!Lapse
    PROVE  R!Inv'
<1> USE DEF R!Inv
<1>1. /\ UNCHANGED <<c1, c2, c4, c5, c6, c7, c9, c12, c13, c14, c15>>
      /\ c3' \in {c3, "done", "failed"} /\ c11' \in {c11, "nobody"}
      /\ c8' \in {c8, TRUE} /\ c10' \in {c10, [c10 EXCEPT !.source = TRUE]}
  BY DEF R!ProviderWorks, R!LateCallback, R!Expire, R!Lapse, R!settings, R!remote
<1>2. /\ c10' \in [state: R!States, source: BOOLEAN, report: BOOLEAN]
      /\ c10'.state = c10.state /\ c10'.report = c10.report /\ (c10.source => c10'.source)
  BY <1>1 DEF R!Typed
<1>3. R!Typed'
  <2>1. /\ c3' \in {"none", "planned", "running", "done", "failed"}
        /\ c11' \in R!Actors \cup {"nobody"} /\ c8' \in BOOLEAN
    BY <1>1 DEF R!Typed
  <2> QED
    BY <1>1, <1>2, <2>1 DEF R!Typed
<1>4. R!PostsByPlace' /\ R!SubmittedOnce'
  BY <1>1 DEF R!PostsByPlace, R!SubmittedOnce
<1>5. R!ReportByPlace' /\ R!ReportBeforeDisposal' /\ R!CompletedHasReport' /\ R!SourceIsKept'
  BY <1>1, <1>2 DEF R!ReportByPlace, R!ReportBeforeDisposal, R!CompletedHasReport,
    R!SourceIsKept
<1> QED
  BY <1>3, <1>4, <1>5

LEMMA ResearchStep ==
    ASSUME R!Inv, [R!Next]_(R!rvars)
    PROVE  R!Inv'
<1> Readers \subseteq R!Actors
  BY DEF R!Actors
<1>1. CASE R!OwnerStep
  BY <1>1, ResearchOwner, ResearchSaves
<1>2. CASE \E r \in Readers : R!ReaderStep(r)
  BY <1>2, ResearchReader, ResearchSaves DEF R!ReaderStep
<1>3. CASE R!ProviderWorks \/ R!LateCallback \/ R!Expire \/ R!Lapse
  BY <1>3, ResearchWorld
<1>4. CASE \E a \in R!Actors : R!Crash(a)
  <2>1. PICK a \in R!Actors : R!Crash(a)
    BY <1>4
  <2>2. c11 \in R!Actors \cup {"nobody"} /\ c14 \in [R!Actors -> R!Bodies \cup {"none"}]
    BY DEF R!Inv, R!Typed
  <2> QED
    BY <2>1, <2>2, ResearchGoes DEF R!Crash, R!Go, R!Steps
<1>5. CASE UNCHANGED R!rvars
  BY <1>5 DEF R!rvars, R!Inv, R!Typed, R!PostsByPlace, R!ReportByPlace, R!SubmittedOnce,
    R!ReportBeforeDisposal, R!CompletedHasReport, R!SourceIsKept
<1> QED
  BY <1>1, <1>2, <1>3, <1>4, <1>5 DEF R!Next

(* Only a link changes the file, and it takes no other's place.            *)
LEMMA ResearchKeeps ==
    ASSUME R!Next
    PROVE  R!KeepsReport
BY DEF R!KeepsReport, R!Next, R!OwnerStep, R!ReaderStep, R!PlanReturns, R!PlanFails,
  R!StartReturns, R!StartFails, R!PhaseFails, R!Fails, R!ReportState, R!WaitByID, R!Poll,
  R!RequestReport, R!Sleep, R!MissesDeadline, R!SaveFails, R!Link, R!Linked, R!ObserveReport,
  R!Dispose, R!Recover, R!ReadBack, R!ProviderWorks, R!LateCallback, R!Expire, R!Lapse, R!Crash

(* In every behaviour of a research, its owner and any number of readers,  *)
(* no prompt is posted twice, the source chat goes only when the report is *)
(* in a file the row knows of, "completed" is true, a chat that was seen   *)
(* is recorded and retained, and a saved report stays (research.py:300,    *)
(* 331, 497, 926).                                                         *)
THEOREM ReportsAreSafe == Spec => ReportIsSafe
<1>1. Init => ResearchPart
  BY ResearchInit DEF Init, ResearchPart
<1>2. ResearchPart /\ [Next]_vars => ResearchPart'
  <2> SUFFICES ASSUME ResearchPart, [Next]_vars, part' = "research"
               PROVE  R!Inv'
    BY DEF ResearchPart
  <2>1. part = "research" /\ [R!Next]_(R!rvars)
    BY DEF Next, vars, cells, R!rvars
  <2> QED
    BY <2>1, ResearchStep DEF ResearchPart
<1>3. ResearchPart =>
        (part = "research" =>
            /\ R!SubmittedOnce /\ R!ReportBeforeDisposal
            /\ R!CompletedHasReport /\ R!SourceIsKept)
  BY DEF ResearchPart, R!Inv
<1>4. [Next]_vars => [part = "research" => R!KeepsReport]_vars
  BY ResearchKeeps DEF Next
<1> QED
  BY <1>1, <1>2, <1>3, <1>4, PTL DEF Spec, ReportIsSafe

-----------------------------------------------------------------------------
(* The receipts of a command line run.  Of its cells, c1 is media, c2 rows, *)
(* c3 pipe, c4 run, c5 phase, c6 mine, c7 payload and c8 receipt.           *)

ReceiptsPart == part = "onboarding" => P!Inv

LEMMA ReceiptsInit == P!Init => P!Inv
<1> SUFFICES ASSUME P!Init
             PROVE  P!Inv
  OBVIOUS
<1>1. P!Typed
  BY DEF P!Init, P!Typed, P!Phases
<1>2. P!OneKey /\ P!HandlesLead /\ P!VerifiedByPlace /\ P!QuietByPlace
  BY DEF P!Init, P!OneKey, P!HandlesLead, P!VerifiedByPlace, P!QuietByPlace
<1>3. P!OneGeneration /\ P!LeadsBack /\ P!OkIsVerified /\ P!UnattemptedIsQuiet
  BY DEF P!Init, P!OneGeneration, P!LeadsBack, P!OkIsVerified, P!UnattemptedIsQuiet
<1> QED
  BY <1>1, <1>2, <1>3 DEF P!Inv

(* With one key for ever, more than one row means a pruned one, and a       *)
(* receipt that names a row names the only one.                            *)
LEMMA ReceiptsLead ==
    ASSUME P!Typed, P!OneKey, P!HandlesLead, P!OneGeneration
    PROVE  P!LeadsBack
<1> SUFFICES ASSUME P!Resumable, c8 # None
             PROVE  /\ \A h \in DOMAIN c2 :
                         \/ P!Pruned \/ c8.handle = h
                         \/ c8.handle = None /\ c8.key = c2[h].key
                    /\ c8.handle # None => c8.handle \in DOMAIN c2
  BY DEF P!LeadsBack
<1>1. c8.handle \in DOMAIN c2 \cup {None} /\ c8.key = 1
  BY DEF P!HandlesLead, P!Handles, P!OneKey
<1>2. \A h \in DOMAIN c2 : c2[h].key = 1
  BY DEF P!OneKey
<1>3. DOMAIN c2 = 1..Len(c2) /\ Len(c2) \in Nat
  BY DEF P!Typed
<1>4. CASE P!Pruned
  BY <1>1, <1>4
<1>5. CASE Len(c2) <= 1
  BY <1>1, <1>2, <1>3, <1>5
<1> QED
  BY <1>3, <1>4, <1>5 DEF P!OneGeneration

LEMMA ReceiptsOutputs ==
    \A output \in P!Outputs : P!LocalOnes(output) \in SUBSET P!Candidates
BY DEF P!Outputs, P!Candidates, P!Flaws, P!LocalOnes

LEMMA ReceiptsAnswers ==
    ASSUME NEW life
    PROVE  P!Answers(life) \subseteq P!Results
<1>1. {} \in P!Outputs /\ {[kind |-> "video", flaw |-> "none"]} \in P!Outputs
  BY DEF P!Outputs, P!Candidates, P!Flaws
<1>2. {"completed", "running", "failed", "timed_out"} \subseteq P!Fates /\ P!Dead \subseteq P!Fates
  BY DEF P!Fates, P!Dead
<1>3. SUFFICES ASSUME NEW a \in P!Answers(life)
               PROVE  a \in P!Results
  OBVIOUS
<1>4. \E ok, fatal, more \in BOOLEAN, s \in P!Fates, o \in P!Outputs :
        a = [ok |-> ok, state |-> s, fatal |-> fatal, more |-> more, output |-> o]
  <2>1. CASE \E o \in P!Outputs : a = [ok |-> TRUE, state |-> "completed", fatal |-> FALSE,
                                      more |-> FALSE, output |-> o]
    BY <1>2, <2>1
  <2>2. CASE \E o \in P!Outputs : a = [ok |-> TRUE, state |-> "running", fatal |-> FALSE,
                                      more |-> TRUE, output |-> o]
    BY <1>2, <2>2
  <2>3. CASE \E s \in P!Fates, more \in BOOLEAN :
               a = [ok |-> FALSE, state |-> s, fatal |-> FALSE, more |-> more, output |-> {}]
    BY <1>1, <2>3
  <2>4. CASE \E s \in P!Dead : a = [ok |-> FALSE, state |-> s, fatal |-> TRUE, more |-> FALSE,
                                   output |-> {}]
    BY <1>1, <1>2, <2>4
  <2> QED
    BY <1>1, <1>2, <1>3, <2>1, <2>2, <2>3, <2>4 DEF P!Answers
<1> QED
  BY <1>4 DEF P!Results

LEMMA ReceiptsRaised ==
    ASSUME NEW m \in P!Locals
    PROVE  /\ P!Raised(m) \in P!Locals /\ P!Timed(m) \in P!Locals
           /\ P!Raised(m).key = m.key /\ P!Timed(m).key = m.key
           /\ P!Raised(m).handle = m.handle /\ P!Timed(m).handle = m.handle
           /\ P!Raised(m).attempted = m.attempted /\ P!Timed(m).attempted = m.attempted
           /\ P!Raised(m).state = "completed" => m.verified /\ P!Raised(m) = m
           /\ P!Timed(m).state = "completed" => m.verified /\ P!Timed(m) = m
BY DEF P!Raised, P!Timed, P!Locals, P!Fates, P!Dead

(* A run ends with what it knows: the receipt has its key and its handle,   *)
(* and says "ok" only of files that were verified.                         *)
LEMMA ReceiptsEnd ==
    ASSUME P!Inv, c5 # "idle", NEW m \in P!Locals, P!End(m), UNCHANGED <<c1, c2, c3, c4>>,
           m.key = c6.key, m.handle \in IF P!Resumable THEN P!Handles ELSE {None}, m.attempted = c6.attempted,
           m.state = "completed" =>
               m.kept # {} /\ \A c \in m.kept : c.flaw \notin P!Faults \cup {"remote"}
    PROVE  P!Inv'
<1> USE DEF P!Inv
<1>1. /\ c5' = "idle" /\ c6' = None /\ c7' = None
      /\ c8' = [status |-> P!Status(m), attempted |-> m.attempted, kept |-> m.kept,
                key |-> IF c1 = "image" THEN None ELSE m.key, handle |-> m.handle]
  BY DEF P!End
<1>2. /\ m.key \in Nat /\ m.handle \in Nat \cup {None} /\ m.kept \in SUBSET P!Candidates
      /\ m.attempted \in BOOLEAN
  BY DEF P!Locals
<1>3. /\ P!Status(m) \in {"ok", "failed", "pending"}
      /\ P!Status(m) = "ok" => m.state = "completed"
  BY DEF P!Status
<1>4. c8' \in P!Issued /\ c8' # None
  BY <1>1, <1>2, <1>3, ValuesAssumption DEF P!Issued
<1>5. P!Typed'
  BY <1>1, <1>4 DEF P!Typed, P!Phases
<1>6. P!OneKey'
  BY <1>1 DEF P!OneKey, P!Resumable
<1>7. P!HandlesLead'
  BY <1>1 DEF P!HandlesLead, P!Handles, P!Resumable
<1>8. P!VerifiedByPlace'
  BY <1>1 DEF P!VerifiedByPlace
<1>9. c4 # 0 /\ (c4 = 1 /\ ~m.attempted => c2 = <<>> /\ c3 = {})
  BY DEF P!QuietByPlace
<1>10. P!QuietByPlace'
  BY <1>1, <1>4, <1>9 DEF P!QuietByPlace
<1>11. P!OneGeneration'
  BY DEF P!OneGeneration, P!Resumable, P!Pruned
<1>12. P!LeadsBack'
  BY <1>5, <1>6, <1>7, <1>11, ReceiptsLead, PTL
<1>13. P!OkIsVerified'
  BY <1>1, <1>3 DEF P!OkIsVerified, P!Faults
<1>14. P!UnattemptedIsQuiet'
  BY <1>1, <1>9 DEF P!UnattemptedIsQuiet
<1> QED
  BY <1>5, <1>6, <1>7, <1>8, <1>10, <1>11, <1>12, <1>13, <1>14

(* Every end of a run is one of these: a deadline, an exception, or what    *)
(* the run itself concludes.                                               *)
LEMMA ReceiptsEnds ==
    ASSUME P!Inv, P!Late \/ P!Lost \/ P!Shutdown \/ P!Image
    PROVE  P!Inv'
<1> USE DEF P!Inv
<1>1. /\ c5 # "idle" /\ c6 \in P!Locals
      /\ c6.handle \in IF P!Resumable THEN P!Handles ELSE {None}
      /\ UNCHANGED <<c1, c2, c3, c4>>
  BY DEF P!Late, P!Lost, P!Shutdown, P!Image, P!Typed, P!HandlesLead
<1>2. c6.verified =>
        /\ c6.state = "completed" /\ c6.kept # {}
        /\ \A c \in c6.kept : c.flaw \notin P!Faults \cup {"remote"}
  BY <1>1 DEF P!VerifiedByPlace
<1>3. CASE P!Late
  BY <1>1, <1>2, <1>3, ReceiptsRaised, ReceiptsEnd DEF P!Late
<1>4. CASE P!Lost
  BY <1>1, <1>2, <1>4, ReceiptsRaised, ReceiptsEnd DEF P!Lost
<1>5. CASE P!Shutdown
  <2>1. c6.state = "completed" => c6.verified
    BY <1>5 DEF P!Shutdown, P!VerifiedByPlace
  <2> QED
    BY <1>1, <1>2, <1>5, <2>1, ReceiptsEnd DEF P!Shutdown
<1>6. CASE P!Image
  <2>1. PICK output \in P!Outputs, ok \in BOOLEAN :
          P!End(IF ok /\ ~P!Unfit(output) /\ P!LocalOnes(output) # {}
                THEN [c6 EXCEPT !.state = "completed", !.verified = TRUE,
                                !.kept = P!LocalOnes(output)]
                ELSE [c6 EXCEPT !.state = "failed"])
    BY <1>6 DEF P!Image
  <2>2. P!LocalOnes(output) \in SUBSET P!Candidates
    BY <2>1, ReceiptsOutputs
  <2>3. CASE ok /\ ~P!Unfit(output) /\ P!LocalOnes(output) # {}
    <3> DEFINE m == [c6 EXCEPT !.state = "completed", !.verified = TRUE,
                               !.kept = P!LocalOnes(output)]
    <3>1. /\ m \in P!Locals /\ m.key = c6.key /\ m.handle = c6.handle
          /\ m.attempted = c6.attempted /\ m.kept = P!LocalOnes(output)
      BY <1>1, <2>2 DEF P!Locals, P!Fates
    <3>2. \A c \in m.kept : c.flaw \notin P!Faults \cup {"remote"}
      BY <2>3, <3>1 DEF P!Unfit, P!LocalOnes
    <3> QED
      BY <1>1, <2>1, <2>3, <3>1, <3>2, ReceiptsEnd
  <2>4. CASE ~ (ok /\ ~P!Unfit(output) /\ P!LocalOnes(output) # {})
    <3> DEFINE m == [c6 EXCEPT !.state = "failed"]
    <3>1. /\ m \in P!Locals /\ m.key = c6.key /\ m.handle = c6.handle
          /\ m.attempted = c6.attempted /\ m.state = "failed"
      BY <1>1 DEF P!Locals, P!Fates, P!Dead
    <3> QED
      BY <1>1, <2>1, <2>4, <3>1, ReceiptsEnd
  <2> QED
    BY <2>3, <2>4
<1> QED
  BY <1>3, <1>4, <1>5, <1>6

LEMMA ReceiptsBegin ==
    ASSUME P!Inv, P!Run
    PROVE  P!Inv'
<1> USE DEF P!Inv
<1>1. PICK key, handle : P!Begin(key, handle) /\ (\/ c8 = None /\ key = None /\ handle = None
                                                  \/ c8 # None /\ key = c8.key /\ handle = c8.handle)
  BY DEF P!Run
<1>2. /\ c5 = "idle" /\ c4' = c4 + 1 /\ c5' = "initialize" /\ c7' = None /\ c8' = None
      /\ UNCHANGED <<c1, c2, c3>>
      /\ c6' = [key |-> P!Key(key, handle), handle |-> handle, state |-> "unknown",
                kept |-> {}, attempted |-> FALSE, verified |-> FALSE]
  BY <1>1 DEF P!Begin
<1>3. c8 \in P!Issued \cup {None} /\ c4 \in Nat
  BY <1>2 DEF P!Typed
<1>4. c8 = None => c4 = 0 /\ c2 = <<>> /\ c3 = {}
  BY <1>2 DEF P!QuietByPlace
<1>5. handle \in IF P!Resumable THEN P!Handles ELSE {None}
  BY <1>1 DEF P!HandlesLead, P!Handles
<1>6. handle \in Nat \cup {None} /\ key \in Nat \cup {None}
  BY <1>1, <1>3 DEF P!Issued
<1>7. P!Key(key, handle) \in Nat /\ (P!Resumable => P!Key(key, handle) = 1)
  <2>1. CASE c8 = None
    BY <1>1, <1>2, <1>3, <1>4, <2>1 DEF P!Key
  <2>2. CASE c8 # None /\ P!Resumable
    BY <1>1, <2>2, ValuesAssumption DEF P!Key, P!OneKey
  <2>3. CASE ~P!Resumable
    BY <1>2, <1>3, <1>5, <1>6, <2>3 DEF P!Key
  <2> QED
    BY <2>1, <2>2, <2>3
<1>8. P!Typed'
  <2>1. c6' \in P!Locals
    BY <1>2, <1>6, <1>7 DEF P!Locals, P!Fates
  <2> QED
    BY <1>2, <1>3, <2>1 DEF P!Typed, P!Phases
<1>9. P!OneKey'
  BY <1>2, <1>7 DEF P!OneKey, P!Resumable
<1>10. P!HandlesLead'
  BY <1>2, <1>5 DEF P!HandlesLead, P!Handles, P!Resumable
<1>11. P!VerifiedByPlace'
  BY <1>2 DEF P!VerifiedByPlace
<1>12. P!QuietByPlace'
  BY <1>2, <1>3, <1>4 DEF P!QuietByPlace
<1>13. P!OneGeneration' /\ P!LeadsBack' /\ P!OkIsVerified' /\ P!UnattemptedIsQuiet'
  BY <1>2 DEF P!OneGeneration, P!LeadsBack, P!OkIsVerified, P!UnattemptedIsQuiet,
    P!Resumable, P!Pruned
<1> QED
  BY <1>8, <1>9, <1>10, <1>11, <1>12, <1>13

LEMMA ReceiptsConnect ==
    ASSUME P!Inv, P!Connect
    PROVE  P!Inv'
<1> USE DEF P!Inv
<1>1. /\ UNCHANGED <<c1, c2, c4, c7, c8>> /\ c5 = "initialize" /\ c7 = None
      /\ c6 \in P!Locals /\ c8 = None /\ c3' \in {c3, c3 \cup {c6.key}}
  BY DEF P!Connect, P!Typed
<1>2. /\ c6' \in P!Locals /\ c6'.key = c6.key /\ c6'.handle = c6.handle
      /\ c6'.state = c6.state /\ c6'.verified = c6.verified
      /\ \/ c5' = "result" /\ c3' = c3 /\ c6' = c6
         \/ c5' = "start" /\ c6'.attempted
  BY <1>1 DEF P!Connect, P!Locals
<1>3. P!Typed'
  <2>1. c3' \subseteq Nat
    BY <1>1 DEF P!Typed, P!Locals
  <2>2. c5' = "start" => c7' \in P!Replies \cup {None}
    BY <1>1
  <2> QED
    BY <1>1, <1>2, <2>1, <2>2 DEF P!Typed, P!Phases
<1>4. P!OneKey'
  BY <1>1, <1>2 DEF P!OneKey, P!Resumable
<1>5. P!HandlesLead'
  BY <1>1, <1>2 DEF P!HandlesLead, P!Handles, P!Resumable
<1>6. P!VerifiedByPlace'
  BY <1>1, <1>2 DEF P!VerifiedByPlace
<1>7. P!QuietByPlace'
  BY <1>1, <1>2 DEF P!QuietByPlace
<1>8. P!OneGeneration' /\ P!LeadsBack' /\ P!OkIsVerified' /\ P!UnattemptedIsQuiet'
  BY <1>1 DEF P!OneGeneration, P!LeadsBack, P!OkIsVerified, P!UnattemptedIsQuiet,
    P!Resumable, P!Pruned
<1> QED
  BY <1>3, <1>4, <1>5, <1>6, <1>7, <1>8

LEMMA ReceiptsServe ==
    ASSUME P!Inv, NEW key \in c3, P!Serve(key)
    PROVE  P!Inv'
<1> USE DEF P!Inv
<1>1. /\ UNCHANGED <<c1, c4, c5, c6, c8>> /\ c3' = c3 \ {key} /\ key \in Nat
      /\ c2' = c2 \/ (P!Reserved(key) = {} /\ c2' = Append(c2, [key |-> key, life |-> "running"]))
  BY DEF P!Serve, P!Typed
<1>2. /\ c2' \in Seq([key : Nat, life : {"running", "completed", "failed", "pruned"}])
      /\ DOMAIN c2 \subseteq DOMAIN c2' /\ Len(c2) <= Len(c2') /\ Len(c2) \in Nat
      /\ \A h \in DOMAIN c2 : c2'[h] = c2[h]
      /\ \A h \in DOMAIN c2' : h \in DOMAIN c2 \/ c2'[h].key = key
  <2>1. [key |-> key, life |-> "running"]
          \in [key : Nat, life : {"running", "completed", "failed", "pruned"}]
    BY <1>1
  <2>2. c2 \in Seq([key : Nat, life : {"running", "completed", "failed", "pruned"}])
    BY DEF P!Typed
  <2>3. CASE c2' = c2
    BY <2>2, <2>3
  <2>4. CASE c2' = Append(c2, [key |-> key, life |-> "running"])
    <3> DEFINE r == [key |-> key, life |-> "running"]
    <3>1. r.key = key
      OBVIOUS
    <3> HIDE DEF r
    <3>2. /\ c2' \in Seq([key : Nat, life : {"running", "completed", "failed", "pruned"}])
          /\ Len(c2) \in Nat /\ Len(c2') = Len(c2) + 1
          /\ DOMAIN c2 = 1..Len(c2) /\ DOMAIN c2' = 1..Len(c2')
      BY <2>1, <2>2, <2>4 DEF r
    <3>3. \A h \in DOMAIN c2 : c2'[h] = c2[h]
      BY <2>2, <2>4, <3>2 DEF r
    <3>4. c2'[Len(c2) + 1] = r
      BY <2>2, <2>4 DEF r
    <3> QED
      BY <3>1, <3>2, <3>3, <3>4
  <2> QED
    BY <1>1, <2>3, <2>4
<1>3. /\ c5 = "start" => \/ c7' = c7
                         \/ c7' = [handle |-> None]
                         \/ \E h \in DOMAIN c2' : c7' = [handle |-> h]
      /\ c5 # "start" => c7' = c7
  BY DEF P!Serve, P!Reserved
<1>4. DOMAIN c2' \subseteq Nat
  BY <1>2
<1>5. P!Typed'
  BY <1>1, <1>2, <1>3, <1>4 DEF P!Typed, P!Replies
<1>6. P!OneKey'
  <2>1. P!Resumable => key = 1
    BY DEF P!OneKey
  <2> QED
    BY <1>1, <1>2, <2>1 DEF P!OneKey, P!Resumable
<1>7. P!HandlesLead'
  BY <1>1, <1>2, <1>3 DEF P!HandlesLead, P!Handles, P!Resumable
<1>8. P!VerifiedByPlace'
  BY <1>1, <1>3 DEF P!VerifiedByPlace, P!Faults
<1>9. P!QuietByPlace' /\ P!OkIsVerified' /\ P!UnattemptedIsQuiet'
  BY <1>1 DEF P!QuietByPlace, P!OkIsVerified, P!UnattemptedIsQuiet, P!Faults
<1>10. P!OneGeneration'
  BY <1>1, <1>2 DEF P!OneGeneration, P!Resumable, P!Pruned, P!Reserved, P!OneKey
<1>11. P!LeadsBack'
  BY <1>5, <1>6, <1>7, <1>10, ReceiptsLead, PTL
<1> QED
  BY <1>5, <1>6, <1>7, <1>8, <1>9, <1>10, <1>11

LEMMA ReceiptsStarted ==
    ASSUME P!Inv, P!Started
    PROVE  P!Inv'
<1> USE DEF P!Inv
<1> DEFINE m == [c6 EXCEPT !.handle = c7.handle]
<1>1. /\ c5 = "start" /\ c7 # None /\ P!Resumable /\ UNCHANGED <<c1, c2, c3, c4>>
      /\ c6 \in P!Locals /\ c7 \in P!Replies /\ c8 = None
  BY DEF P!Started, P!Typed, P!Resumable
<1>2. c6.handle \in P!Handles /\ c7.handle \in P!Handles /\ ~c6.verified
  BY <1>1 DEF P!HandlesLead, P!VerifiedByPlace
<1>3. /\ m \in P!Locals /\ m.key = c6.key /\ m.handle = c7.handle /\ m.attempted = c6.attempted
      /\ ~m.verified /\ m.state = c6.state
  BY <1>1, <1>2 DEF P!Locals, P!Replies
<1>4. CASE P!End(P!Raised(c6))
  BY <1>1, <1>2, <1>4, ReceiptsRaised, ReceiptsEnd
<1>5. CASE P!End(P!Raised([m EXCEPT !.state = "failed"]))
  <2> DEFINE n == [m EXCEPT !.state = "failed"]
  <2>1. /\ n \in P!Locals /\ n.key = c6.key /\ n.handle = c7.handle
        /\ n.attempted = c6.attempted /\ ~n.verified
    BY <1>3 DEF P!Locals, P!Fates, P!Dead
  <2> HIDE DEF m, n
  <2> QED
    BY <1>1, <1>2, <1>5, <2>1, ReceiptsRaised, ReceiptsEnd DEF n
<1>6. CASE P!End(P!Raised(m))
  <2> HIDE DEF m
  <2> QED
    BY <1>1, <1>2, <1>3, <1>6, ReceiptsRaised, ReceiptsEnd
<1>7. CASE c5' = "result" /\ c6' = [m EXCEPT !.state = "running"] /\ c7' = None /\ UNCHANGED c8
  <2>1. /\ c6' \in P!Locals /\ c6'.key = c6.key /\ c6'.handle = c7.handle
        /\ c6'.attempted = c6.attempted /\ ~c6'.verified
    BY <1>3, <1>7 DEF P!Locals, P!Fates
  <2> HIDE DEF m
  <2>2. P!Typed'
    BY <1>1, <1>7, <2>1 DEF P!Typed, P!Phases
  <2>3. P!OneKey' /\ P!HandlesLead'
    BY <1>1, <1>2, <1>7, <2>1 DEF P!OneKey, P!HandlesLead, P!Handles, P!Resumable
  <2>4. P!VerifiedByPlace' /\ P!QuietByPlace'
    BY <1>1, <1>7, <2>1 DEF P!VerifiedByPlace, P!QuietByPlace
  <2>5. P!OneGeneration' /\ P!LeadsBack' /\ P!OkIsVerified' /\ P!UnattemptedIsQuiet'
    BY <1>1, <1>7 DEF P!OneGeneration, P!LeadsBack, P!OkIsVerified, P!UnattemptedIsQuiet,
      P!Resumable, P!Pruned
  <2> QED
    BY <2>2, <2>3, <2>4, <2>5
<1> QED
  BY <1>4, <1>5, <1>6, <1>7 DEF P!Started

(* A step of a running run that neither ends it nor completes it.           *)
LEMMA ReceiptsGoOn ==
    ASSUME P!Inv, c5 # "idle", UNCHANGED <<c1, c2, c3, c4, c8>>,
           c6' \in P!Locals, c6'.key = c6.key, c6'.handle = c6.handle,
           c6'.attempted = c6.attempted, c5' \in {"result", "verification", "shutdown"},
           IF c5' = "verification" THEN c7' \in P!Results ELSE c7' = None,
           P!VerifiedByPlace'
    PROVE  P!Inv'
<1> USE DEF P!Inv
<1>1. P!Typed'
  BY DEF P!Typed, P!Phases
<1>2. P!OneKey' /\ P!HandlesLead'
  BY DEF P!OneKey, P!HandlesLead, P!Handles, P!Resumable
<1>3. P!QuietByPlace'
  BY DEF P!QuietByPlace
<1>4. P!OneGeneration' /\ P!LeadsBack' /\ P!OkIsVerified' /\ P!UnattemptedIsQuiet'
  BY DEF P!Typed, P!OneGeneration, P!LeadsBack, P!OkIsVerified, P!UnattemptedIsQuiet, P!Resumable, P!Pruned
<1> QED
  BY <1>1, <1>2, <1>3, <1>4

LEMMA ReceiptsPoll ==
    ASSUME P!Inv, P!Poll
    PROVE  P!Inv'
<1> USE DEF P!Inv
<1>1. PICK answer \in P!Answers(c2[c6.handle].life) :
        \/ /\ c7' = answer /\ c6' = [c6 EXCEPT !.state = answer.state]
           /\ c5' = "verification" /\ UNCHANGED c8
        \/ P!End(P!Raised([c6 EXCEPT !.state = answer.state]))
  BY DEF P!Poll
<1>2. /\ c5 = "result" /\ c6 \in P!Locals /\ ~c6.verified /\ UNCHANGED <<c1, c2, c3, c4>>
      /\ c6.handle \in IF P!Resumable THEN P!Handles ELSE {None}
  BY DEF P!Poll, P!Typed, P!VerifiedByPlace, P!HandlesLead
<1>3. answer \in P!Results
  BY <1>1, ReceiptsAnswers
<1>4. answer.state \in P!Fates
  BY <1>3 DEF P!Results
<1> DEFINE m == [c6 EXCEPT !.state = answer.state]
<1>5. /\ m \in P!Locals /\ m.key = c6.key /\ m.handle = c6.handle /\ m.attempted = c6.attempted
      /\ ~m.verified /\ m.state = answer.state
  BY <1>2, <1>4 DEF P!Locals
<1>6. CASE P!End(P!Raised(m))
  <2> HIDE DEF m
  <2> QED
    BY <1>2, <1>5, <1>6, ReceiptsRaised, ReceiptsEnd
<1>7. CASE c7' = answer /\ c6' = m /\ c5' = "verification" /\ UNCHANGED c8
  <2> HIDE DEF m
  <2>1. P!VerifiedByPlace'
    BY <1>5, <1>7 DEF P!VerifiedByPlace
  <2> QED
    BY <1>2, <1>3, <1>5, <1>7, <2>1, ReceiptsGoOn
<1> QED
  BY <1>1, <1>6, <1>7

LEMMA ReceiptsVerify ==
    ASSUME P!Inv, P!Verify
    PROVE  P!Inv'
<1> USE DEF P!Inv
<1> DEFINE kept == P!LocalOnes(c7.output)
           m == [c6 EXCEPT !.kept = kept]
           n == IF c7.state = "completed" THEN [m EXCEPT !.verified = TRUE] ELSE m
<1>1. /\ c5 = "verification" /\ c6 \in P!Locals /\ c7 \in P!Results
      /\ ~c6.verified /\ c6.state = c7.state /\ UNCHANGED <<c1, c2, c3, c4>>
      /\ c6.handle \in IF P!Resumable THEN P!Handles ELSE {None}
  BY DEF P!Verify, P!Typed, P!VerifiedByPlace, P!HandlesLead
<1>2. kept \in SUBSET P!Candidates
  BY <1>1, ReceiptsOutputs DEF P!Results
<1>3. /\ n \in P!Locals /\ n.key = c6.key /\ n.handle = c6.handle /\ n.attempted = c6.attempted
      /\ n.state = c7.state /\ n.kept = kept /\ n.verified = (c7.state = "completed")
  BY <1>1, <1>2 DEF P!Locals
<1>4. CASE P!End(P!Raised(c6))
  BY <1>1, <1>4, ReceiptsRaised, ReceiptsEnd
<1>5. CASE /\ ~P!Unfit(c7.output) /\ (c7.state = "completed" => kept # {})
           /\ c6' = n /\ c7' = None /\ UNCHANGED c8
           /\ \/ c5' = "shutdown"
              \/ c5' = "result" /\ c7.state # "completed"
  <2>1. \A c \in kept : c.flaw \notin P!Faults \cup {"remote"}
    BY <1>5 DEF P!Unfit, P!LocalOnes
  <2>2. P!Faults' = P!Faults
    BY <1>1 DEF P!Faults
  <2> HIDE DEF kept, m, n
  <2>3. P!VerifiedByPlace'
    BY <1>3, <1>5, <2>1, <2>2 DEF P!VerifiedByPlace
  <2> QED
    BY <1>1, <1>3, <1>5, <2>3, ReceiptsGoOn
<1> QED
  BY <1>1, <1>4, <1>5 DEF P!Verify

LEMMA ReceiptsSettle ==
    ASSUME P!Inv, NEW h \in DOMAIN c2, P!Settle(h)
    PROVE  P!Inv'
<1> USE DEF P!Inv
<1>1. PICK life \in {"completed", "failed", "pruned"} :
        /\ c2' = [c2 EXCEPT ![h].life = life] /\ (c2[h].life = "pruned" => life = "pruned")
        /\ UNCHANGED <<c1, c3, c4, c5, c6, c7, c8>>
  BY DEF P!Settle
<1>2. /\ c2' \in Seq([key : Nat, life : {"running", "completed", "failed", "pruned"}])
      /\ DOMAIN c2' = DOMAIN c2 /\ Len(c2') = Len(c2) /\ c2 # <<>>
      /\ \A i \in DOMAIN c2 : c2'[i].key = c2[i].key
      /\ P!Pruned => P!Pruned'
  <2> DEFINE Rows == [key : Nat, life : {"running", "completed", "failed", "pruned"}]
  <2>1. c2 \in Seq(Rows) /\ c2[h] \in Rows
    <3>1. c2 \in Seq(Rows)
      BY DEF P!Typed
    <3> HIDE DEF Rows
    <3> QED
      BY <3>1
  <2>2. [c2[h] EXCEPT !.life = life] \in Rows /\ [c2[h] EXCEPT !.life = life].key = c2[h].key
    BY <2>1
  <2> HIDE DEF Rows
  <2>3. c2' \in Seq(Rows) /\ DOMAIN c2' = DOMAIN c2 /\ Len(c2') = Len(c2) /\ c2 # <<>>
    BY <1>1, <2>1, <2>2
  <2>4. \A i \in DOMAIN c2 : c2'[i].key = c2[i].key
    BY <1>1, <2>1, <2>2
  <2>5. P!Pruned => P!Pruned'
    <3>1. \A i \in DOMAIN c2 : c2[i].life = "pruned" => c2'[i].life = "pruned"
      BY <1>1, <2>1 DEF Rows
    <3> QED
      BY <2>3, <3>1 DEF P!Pruned
  <2> QED
    BY <2>3, <2>4, <2>5 DEF Rows
<1>3. P!Typed'
  BY <1>1, <1>2 DEF P!Typed
<1>4. P!OneKey' /\ P!HandlesLead'
  BY <1>1, <1>2 DEF P!OneKey, P!HandlesLead, P!Handles, P!Resumable
<1>5. P!VerifiedByPlace' /\ P!QuietByPlace' /\ P!OkIsVerified' /\ P!UnattemptedIsQuiet'
  BY <1>1, <1>2 DEF P!VerifiedByPlace, P!QuietByPlace, P!OkIsVerified, P!UnattemptedIsQuiet, P!Faults
<1>6. P!OneGeneration'
  BY <1>1, <1>2 DEF P!OneGeneration, P!Resumable
<1>7. P!LeadsBack'
  BY <1>3, <1>4, <1>6, ReceiptsLead, PTL
<1> QED
  BY <1>3, <1>4, <1>5, <1>6, <1>7

LEMMA ReceiptsStep ==
    ASSUME P!Inv, [P!Next]_(P!rvars)
    PROVE  P!Inv'
<1>1. CASE P!Next
  BY <1>1, ReceiptsBegin, ReceiptsConnect, ReceiptsStarted, ReceiptsPoll, ReceiptsVerify,
    ReceiptsEnds, ReceiptsServe, ReceiptsSettle DEF P!Next
<1>2. CASE UNCHANGED P!rvars
  BY <1>2 DEF P!rvars, P!Inv, P!Typed, P!OneKey, P!HandlesLead, P!Handles, P!VerifiedByPlace,
    P!QuietByPlace, P!OneGeneration, P!LeadsBack, P!OkIsVerified, P!UnattemptedIsQuiet,
    P!Resumable, P!Pruned, P!Faults
<1> QED
  BY <1>1, <1>2

(* In every behaviour of the command line client, a user who does as the   *)
(* receipts say has one generation, is led back to it whatever was lost,   *)
(* is told "ok" only of files that were verified, and nothing is out when  *)
(* the receipt says that nothing was attempted (onboarding.py).            *)
THEOREM ReceiptsAreTrue == Spec => []ReceiptsLeadBack
<1>1. Init => ReceiptsPart
  BY ReceiptsInit DEF Init, ReceiptsPart
<1>2. ReceiptsPart /\ [Next]_vars => ReceiptsPart'
  <2> SUFFICES ASSUME ReceiptsPart, [Next]_vars, part' = "onboarding"
               PROVE  P!Inv'
    BY DEF ReceiptsPart
  <2>1. part = "onboarding" /\ [P!Next]_(P!rvars)
    BY DEF Next, vars, cells, P!rvars
  <2> QED
    BY <2>1, ReceiptsStep DEF ReceiptsPart
<1>3. ReceiptsPart => ReceiptsLeadBack
  BY DEF ReceiptsPart, ReceiptsLeadBack, P!Inv
<1> QED
  BY <1>1, <1>2, <1>3, PTL DEF Spec

-----------------------------------------------------------------------------
(* The reply of a chat.  Of its cells, c1 is request, c2 phase, c3 goal,     *)
(* c4 wire, c5 owner, c6 text, c7 known, c8 last, c9 mark, c10 gone and     *)
(* c11 told.                                                               *)

ChatPart == part = "chat" => S!Inv

Letters == {Answer[i] : i \in DOMAIN Answer}

(* The text so far, as a sequence. *)
LEMMA ChatUpto ==
    ASSUME NEW n \in 0..Len(Answer)
    PROVE  /\ S!Upto(n) \in Seq(Letters) /\ Len(S!Upto(n)) = n
           /\ \A i \in 1..n : S!Upto(n)[i] = Answer[i]
<1>1. Answer \in Seq(Letters)
  BY ValuesAssumption DEF Letters
<1>2. Len(Answer) \in Nat /\ \A i \in 1..n : Answer[i] \in Letters
  BY <1>1
<1> QED
  BY <1>2, SubSeqProperties DEF S!Upto

(* What comes between two lengths of the answer.                           *)
LEMMA ChatRest ==
    ASSUME NEW l \in 0..Len(Answer), NEW n \in 0..Len(Answer), l <= n,
           NEW s \in {Answer, S!Upto(n)}
    PROVE  /\ SubSeq(s, l + 1, n) \in Seq(Letters) /\ Len(SubSeq(s, l + 1, n)) = n - l
           /\ S!Upto(l) \o SubSeq(s, l + 1, n) = S!Upto(n)
<1>1. Answer \in Seq(Letters) /\ Len(Answer) \in Nat
  BY ValuesAssumption DEF Letters
<1>2. \A i \in (l + 1)..n : s[i] = Answer[i] /\ s[i] \in Letters
  BY <1>1, ChatUpto
<1>3. /\ SubSeq(s, l + 1, n) \in Seq(Letters) /\ Len(SubSeq(s, l + 1, n)) = n - l
      /\ \A i \in 1..(n - l) : SubSeq(s, l + 1, n)[i] = s[l + i]
  <2>1. l + 1 \in Int /\ n \in Int
    BY <1>1
  <2> DEFINE r == SubSeq(s, l + 1, n)
  <2>2. /\ r \in Seq(Letters) /\ Len(r) = IF l + 1 <= n THEN n - (l + 1) + 1 ELSE 0
        /\ \A i \in 1..(n - (l + 1) + 1) : r[i] = s[(l + 1) + i - 1]
    BY <1>2, <2>1, SubSeqProperties
  <2> HIDE DEF r
  <2>3. n - (l + 1) + 1 = n - l /\ \A i \in 1..(n - l) : (l + 1) + i - 1 = l + i
    BY <1>1
  <2> QED
    BY <1>1, <2>2, <2>3 DEF r
<1> DEFINE r == SubSeq(s, l + 1, n)
           u == S!Upto(l)
<1>4. /\ u \in Seq(Letters) /\ Len(u) = l /\ \A i \in 1..l : u[i] = Answer[i]
  BY ChatUpto
<1>5. /\ S!Upto(n) \in Seq(Letters) /\ Len(S!Upto(n)) = n
      /\ \A i \in 1..n : S!Upto(n)[i] = Answer[i]
  BY ChatUpto
<1> HIDE DEF r, u
<1>6. u \o r \in Seq(Letters) /\ Len(u \o r) = n
      /\ \A i \in 1..n : (u \o r)[i] = IF i <= l THEN u[i] ELSE r[i - l]
  <2>1. r \in Seq(Letters) /\ Len(r) = n - l
    BY <1>3 DEF r
  <2>2. Len(u) + Len(r) = n
    BY <1>1, <1>4, <2>1
  <2> QED
    BY <1>4, <2>1, <2>2, ConcatProperties
<1>7. \A i \in 1..n : (u \o r)[i] = S!Upto(n)[i]
  <2> SUFFICES ASSUME NEW i \in 1..n
               PROVE  (u \o r)[i] = Answer[i]
    BY <1>5
  <2>1. CASE i <= l
    BY <1>1, <1>4, <1>6, <2>1
  <2>2. CASE ~(i <= l)
    <3>1. i - l \in 1..(n - l) /\ l + (i - l) = i /\ i \in (l + 1)..n
      BY <1>1, <2>2
    <3> QED
      BY <1>2, <1>3, <1>6, <2>2, <3>1 DEF r
  <2> QED
    BY <2>1, <2>2
<1>8. u \o r = S!Upto(n)
  BY <1>5, <1>6, <1>7, SeqEqual
<1> QED
  BY <1>3, <1>8 DEF r, u

(* One text so far begins with another exactly if it is no shorter.        *)
LEMMA ChatPrefix ==
    ASSUME NEW l \in 0..Len(Answer), NEW n \in 0..Len(Answer)
    PROVE  S!IsPrefix(S!Upto(l), S!Upto(n)) <=> l <= n
<1>1. Answer \in Seq(Letters) /\ Len(Answer) \in Nat
  BY ValuesAssumption DEF Letters
<1>2. \A k \in 0..Len(Answer) : /\ S!Upto(k) \in Seq(Letters) /\ Len(S!Upto(k)) = k
                               /\ \A i \in 1..k : S!Upto(k)[i] = Answer[i]
  BY ChatUpto
<1>3. SubSeq(S!Upto(l), 1, l) = S!Upto(l)
  BY <1>2, SubSeqFull
<1>4. ASSUME l <= n
      PROVE  SubSeq(S!Upto(n), 1, l) = S!Upto(l)
  <2> DEFINE r == SubSeq(S!Upto(n), 1, l)
  <2>1. l \in Int /\ 1 \in Int /\ \A i \in 1..l : S!Upto(n)[i] = Answer[i] /\ S!Upto(n)[i] \in Letters
    BY <1>1, <1>2, <1>4
  <2>2. /\ r \in Seq(Letters) /\ Len(r) = IF 1 <= l THEN l - 1 + 1 ELSE 0
        /\ \A i \in 1..(l - 1 + 1) : r[i] = S!Upto(n)[1 + i - 1]
    BY <2>1, SubSeqProperties
  <2> HIDE DEF r
  <2>3. Len(r) = l /\ \A i \in 1..l : r[i] = S!Upto(l)[i]
    BY <1>1, <1>2, <2>1, <2>2
  <2>4. r = S!Upto(l)
    BY <1>2, <2>2, <2>3, SeqEqual
  <2> QED
    BY <2>4 DEF r
<1> QED
  BY <1>2, <1>3, <1>4 DEF S!IsPrefix

(* A frame, be it a delta, the text so far or both, news or a repetition,   *)
(* adds what is missing up to the length it stands for.                    *)
LEMMA ChatPiece ==
    ASSUME S!Typed, S!LastByWire, S!CollectedOnce,
           NEW n \in c4.chars..Len(Answer), NEW frame \in S!Frames(n)
    PROVE  /\ frame.of \in 0..Len(Answer) /\ frame.of <= n
           /\ c6 \o S!Piece(frame) = S!Upto(frame.of)
<1>1. Answer \in Seq(Letters) /\ Len(Answer) \in Nat
  BY ValuesAssumption DEF Letters
<1>2. /\ c8 \in 0..Len(Answer) /\ c4.chars \in 0..Len(Answer) /\ n \in 0..Len(Answer)
      /\ c8 <= c4.chars /\ c4.chars <= n /\ c8 <= n /\ frame.of = n
  BY <1>1 DEF S!Typed, S!LastByWire, S!Frames
<1>3. /\ c6 = S!Upto(c8) /\ c6 \in Seq(Letters) /\ Len(c6) = c8
  BY <1>2, ChatUpto DEF S!CollectedOnce
<1>4. /\ S!Upto(n) \in Seq(Letters) /\ Len(S!Upto(n)) = n
  BY <1>2, ChatUpto
<1> DEFINE rest == SubSeq(S!Upto(n), c8 + 1, n)
<1>5. /\ rest \in Seq(Letters) /\ Len(rest) = n - c8 /\ c6 \o rest = S!Upto(n)
  BY <1>2, <1>3, ChatRest
<1>6. c6 \o <<>> = c6
  BY <1>3, ConcatEmptySeq
<1>7. /\ S!IsPrefix(c6, S!Upto(n))
      /\ rest = <<>> <=> n = c8
      /\ S!Upto(n) = <<>> <=> n = 0
      /\ S!Upto(n) = c6 => n = c8
  <2>1. S!IsPrefix(c6, S!Upto(n))
    BY <1>2, <1>3, ChatPrefix
  <2> HIDE DEF rest
  <2>2. rest = <<>> <=> n = c8
    BY <1>1, <1>2, <1>5, EmptySeq
  <2>3. S!Upto(n) = <<>> <=> n = 0
    BY <1>2, <1>4, EmptySeq
  <2>4. S!Upto(n) = c6 => n = c8
    BY <1>3, <1>4
  <2> QED
    BY <2>1, <2>2, <2>3, <2>4
<1>8. S!UnlabelledText(S!Upto(n)) = rest
  BY <1>3, <1>4, <1>7 DEF S!UnlabelledText
<1>9. \A delta : n # c8 => S!ExplicitDelta(delta, S!Upto(n)) = rest
  <2>1. n # c8 => S!Upto(n) # c6
    BY <1>7
  <2>2. n # c8 => rest # <<>>
    BY <1>7
  <2> QED
    BY <1>3, <1>4, <1>7, <2>1, <2>2 DEF S!ExplicitDelta
<1> DEFINE d == frame.delta
           f == frame.full
<1>10. S!Piece(frame) = IF d # <<>> THEN S!ExplicitDelta(d, f) ELSE S!UnlabelledText(f)
  BY DEF S!Piece
<1>11. CASE d = SubSeq(Answer, c4.chars + 1, n) /\ f = S!Upto(n)
  <2>1. Len(d) = n - c4.chars
    BY <1>2, <1>11, ChatRest
  <2> HIDE DEF d, f, rest
  <2>2. n = c8 => d = <<>>
    BY <1>1, <1>2, <1>11, SubSeqEmpty
  <2>3. n # c8 => S!Piece(frame) = rest
    BY <1>8, <1>9, <1>10, <1>11
  <2>4. n = c8 => S!Piece(frame) = rest
    BY <1>8, <1>10, <1>11, <2>2
  <2>5. S!Piece(frame) = rest
    BY <2>3, <2>4
  <2> QED
    BY <1>2, <1>5, <2>5
<1>12. CASE d = <<>> /\ f = S!Upto(n)
  <2> HIDE DEF d, f, rest
  <2> QED
    BY <1>2, <1>5, <1>8, <1>10, <1>12
<1>13. CASE /\ c4.chars = c8 /\ n > c8
            /\ d = SubSeq(Answer, c8 + 1, n) /\ f = <<>>
  <2> HIDE DEF d, f, rest
  <2>1. d \in Seq(Letters) /\ Len(d) = n - c8 /\ S!Upto(c8) \o d = S!Upto(n)
    BY <1>2, <1>13, ChatRest
  <2>2. d # <<>>
    <3>1. n - c8 # 0
      BY <1>1, <1>2, <1>13
    <3> QED
      BY <2>1, <3>1, EmptySeq
  <2>3. SubSeq(f, Len(c6) + 1, Len(f)) = <<>>
    <3>1. Len(f) = 0
      BY <1>13
    <3>2. Len(c6) + 1 \in Int /\ 0 < Len(c6) + 1
      BY <1>1, <1>2, <1>3
    <3> QED
      BY <3>1, <3>2, SubSeqEmpty
  <2>4. S!ExplicitDelta(d, f) = d
    BY <1>13, <2>3 DEF S!ExplicitDelta
  <2> QED
    BY <1>2, <1>3, <1>10, <2>1, <2>2, <2>4
<1>14. CASE /\ n = c4.chars /\ n = c8 /\ n > 1
            /\ d = SubSeq(Answer, n, n) /\ f = S!Upto(n)
  <2> HIDE DEF d, f, rest
  <2>1. d \in Seq(Letters) /\ Len(d) = 1
    <3> DEFINE k == n - 1
    <3>1. k \in 0..Len(Answer) /\ k <= n /\ k + 1 = n /\ n - k = 1
      <4>1. n > 1 /\ n \in 0..Len(Answer) /\ Len(Answer) \in Nat
        BY <1>1, <1>2, <1>14
      <4> QED
        BY <4>1
    <3> HIDE DEF k
    <3>2. SubSeq(Answer, k + 1, n) \in Seq(Letters) /\ Len(SubSeq(Answer, k + 1, n)) = n - k
      BY <1>2, <3>1, ChatRest
    <3> QED
      BY <1>14, <3>1, <3>2
  <2>2. d # <<>>
    <3>1. Len(<<>>) = 0
      OBVIOUS
    <3> QED
      BY <2>1, <3>1
  <2>3. f # d
    BY <1>4, <1>14, <2>1
  <2>4. f = c6 /\ f # <<>>
    BY <1>3, <1>7, <1>14
  <2>5. S!ExplicitDelta(d, f) = <<>>
    BY <2>3, <2>4 DEF S!ExplicitDelta
  <2> QED
    BY <1>2, <1>3, <1>6, <1>10, <1>14, <2>2, <2>5
<1>15. CASE /\ n = c4.chars /\ n = c8 /\ n > 1
            /\ d = <<>> /\ f = S!Upto(n - 1)
  <2> HIDE DEF d, f, rest
  <2>1. n - 1 \in 0..Len(Answer) /\ ~(n <= n - 1) /\ n - 1 <= n
    BY <1>1, <1>2, <1>15
  <2>2. ~S!IsPrefix(c6, f) /\ S!IsPrefix(f, c6)
    BY <1>2, <1>3, <1>15, <2>1, ChatPrefix
  <2>3. S!UnlabelledText(f) = <<>>
    BY <2>2 DEF S!UnlabelledText
  <2> QED
    BY <1>2, <1>3, <1>6, <1>10, <1>15, <2>3
<1> QED
  BY <1>2, <1>11, <1>12, <1>13, <1>14, <1>15 DEF S!Frames

LEMMA ChatInit == S!Init => S!Inv
<1> SUFFICES ASSUME S!Init
             PROVE  S!Inv
  OBVIOUS
<1>1. Len(Answer) \in Nat
  BY ValuesAssumption
<1>2. S!Typed /\ S!LastByWire
  <2>1. c4 \in [chars: 0..Len(Answer), frames: Nat] /\ c8 \in 0..Len(Answer) /\ c8 <= c4.chars
    BY <1>1 DEF S!Init
  <2>2. c5 \in [sdk: BOOLEAN, observed: BOOLEAN]
    BY DEF S!Init
  <2> QED
    BY <2>1, <2>2 DEF S!Init, S!Typed, S!Marks, S!LastByWire
<1>3. S!CollectedOnce
  <2>1. SubSeq(Answer, 1, 0) = <<>>
    BY SubSeqEmpty
  <2> QED
    BY <2>1 DEF S!Init, S!CollectedOnce, S!Upto
<1>4. S!MarkByPlace /\ S!SeenIsRegistered /\ S!TaskOutlivesReply
  BY DEF S!Init, S!MarkByPlace, S!SeenIsRegistered, S!TaskOutlivesReply, S!FinalGoals, S!Source
<1> QED
  BY <1>2, <1>3, <1>4 DEF S!Inv

LEMMA ChatStep ==
    ASSUME S!Inv, [S!Next]_(S!chvars)
    PROVE  S!Inv'
<1> USE DEF S!Inv
<1>1. CASE S!Refuse
  <2>1. /\ UNCHANGED <<c1, c3, c4, c5, c6, c7, c8, c9, c10>>
        /\ c2 = "start" /\ c2' = "ended" /\ c11' = "refused"
    BY <1>1 DEF S!Refuse
  <2>2. S!Typed' /\ S!LastByWire' /\ S!CollectedOnce'
    BY <2>1 DEF S!Typed, S!LastByWire, S!CollectedOnce, S!Upto
  <2>3. S!MarkByPlace' /\ S!SeenIsRegistered' /\ S!TaskOutlivesReply'
    BY <2>1 DEF S!MarkByPlace, S!SeenIsRegistered, S!TaskOutlivesReply, S!FinalGoals, S!Source
  <2> QED
    BY <2>2, <2>3
<1>2. CASE S!Post
  <2>1. /\ UNCHANGED <<c1, c4, c5, c6, c7, c8, c9, c10, c11>>
        /\ c2 = "start" /\ c2' = "posted" /\ c3' \in {"none", "running"}
        /\ c1.task => c1.owned
    BY <1>2 DEF S!Post
  <2>2. S!Typed' /\ S!LastByWire' /\ S!CollectedOnce'
    BY <2>1 DEF S!Typed, S!LastByWire, S!CollectedOnce, S!Upto
  <2>3. S!MarkByPlace' /\ S!SeenIsRegistered' /\ S!TaskOutlivesReply'
    BY <2>1 DEF S!Typed, S!MarkByPlace, S!SeenIsRegistered, S!TaskOutlivesReply, S!FinalGoals, S!Source
  <2> QED
    BY <2>2, <2>3
<1>3. CASE S!Metadata
  <2>1. /\ UNCHANGED <<c1, c2, c3, c4, c6, c7, c8, c10, c11>>
        /\ c2 = "posted" /\ c5' = [sdk |-> TRUE, observed |-> TRUE] /\ c9' = "retain"
    BY <1>3 DEF S!Metadata, S!Observe, S!Retained
  <2>2. S!Typed' /\ S!LastByWire' /\ S!CollectedOnce'
    BY <2>1 DEF S!Typed, S!LastByWire, S!CollectedOnce, S!Upto, S!Marks
  <2>3. S!MarkByPlace' /\ S!SeenIsRegistered' /\ S!TaskOutlivesReply'
    BY <2>1 DEF S!MarkByPlace, S!SeenIsRegistered, S!TaskOutlivesReply, S!FinalGoals, S!Source
  <2> QED
    BY <2>2, <2>3
<1>4. CASE S!Frame
  <2>1. PICK n \in c4.chars..Len(Answer) :
          /\ c4' = [chars |-> n, frames |-> c4.frames + 1]
          /\ \/ UNCHANGED <<c6, c7, c8>>
             \/ \E frame \in S!Frames(n) : c6' = c6 \o S!Piece(frame) /\ c8' = frame.of /\ c7' = TRUE
    BY <1>4 DEF S!Frame
  <2>2. UNCHANGED <<c1, c2, c3, c5, c9, c10, c11>> /\ c2 = "posted"
    BY <1>4 DEF S!Frame
  <2>3. Len(Answer) \in Nat
    BY ValuesAssumption
  <2>4. n \in 0..Len(Answer) /\ c8 <= n /\ c8 \in 0..Len(Answer)
    BY <2>3 DEF S!Typed, S!LastByWire
  <2>5. /\ c8' \in 0..Len(Answer) /\ c8' <= n /\ c6' = S!Upto(c8')
        /\ c7' \in BOOLEAN
    <3>1. CASE UNCHANGED <<c6, c7, c8>>
      BY <2>4, <3>1 DEF S!Typed, S!CollectedOnce
    <3>2. CASE \E frame \in S!Frames(n) : c6' = c6 \o S!Piece(frame) /\ c8' = frame.of /\ c7' = TRUE
      BY <3>2, ChatPiece
    <3> QED
      BY <2>1, <3>1, <3>2
  <2>6. S!Typed'
    BY <2>1, <2>2, <2>4, <2>5 DEF S!Typed
  <2>7. S!LastByWire' /\ S!CollectedOnce'
    BY <2>1, <2>5 DEF S!LastByWire, S!CollectedOnce, S!Upto
  <2>8. S!MarkByPlace' /\ S!SeenIsRegistered' /\ S!TaskOutlivesReply'
    BY <2>2 DEF S!MarkByPlace, S!SeenIsRegistered, S!TaskOutlivesReply, S!FinalGoals, S!Source
  <2> QED
    BY <2>6, <2>7, <2>8
<1>5. CASE S!Fail("failed") \/ S!Fail("cancelled")
  <2>1. /\ UNCHANGED <<c1, c3, c4, c6, c7, c8, c10>>
        /\ c2 = "posted" /\ c2' = "ended" /\ c5' = [c5 EXCEPT !.sdk = FALSE]
        /\ c11' \in {"failed", "cancelled"}
        /\ c9' = IF c5.observed \/ c7 THEN "retain" ELSE c9
    BY <1>5 DEF S!Fail, S!FailureSource, S!Retained, S!Source
  <2>2. S!Typed' /\ S!LastByWire' /\ S!CollectedOnce'
    BY <2>1 DEF S!Typed, S!LastByWire, S!CollectedOnce, S!Upto, S!Marks
  <2>3. c5'.observed = c5.observed /\ ~c5'.sdk
    BY <2>1 DEF S!Typed
  <2>4. S!MarkByPlace' /\ S!SeenIsRegistered' /\ S!TaskOutlivesReply'
    BY <2>1, <2>3 DEF S!MarkByPlace, S!SeenIsRegistered, S!TaskOutlivesReply, S!FinalGoals, S!Source
  <2> QED
    BY <2>2, <2>4
<1>6. CASE S!Replied
  <2>1. /\ UNCHANGED <<c1, c3, c5, c9, c10>> /\ c2 = "posted" /\ c11' = "completed"
        /\ c2' = IF c1.task THEN "reading" ELSE "scheduling"
        /\ c1.owned => c5.sdk
        /\ \/ UNCHANGED <<c4, c6, c7, c8>>
           \/ /\ c4' = [chars |-> Len(Answer), frames |-> 1] /\ c6' = Answer
              /\ c7' = TRUE /\ c8' = Len(Answer)
    BY <1>6 DEF S!Replied
  <2>2. Len(Answer) \in Nat /\ SubSeq(Answer, 1, Len(Answer)) = Answer
    BY ValuesAssumption, SubSeqFull
  <2>3. S!Typed'
    <3>1. CASE UNCHANGED <<c4, c6, c7, c8>>
      BY <2>1, <3>1 DEF S!Typed
    <3>2. CASE c4' = [chars |-> Len(Answer), frames |-> 1] /\ c7' = TRUE /\ c8' = Len(Answer)
      <4>1. /\ c4' \in [chars: 0..Len(Answer), frames: Nat] /\ c8' \in 0..Len(Answer)
        BY <2>2, <3>2
      <4> QED
        BY <2>1, <3>2, <4>1 DEF S!Typed
    <3> QED
      BY <2>1, <3>1, <3>2
  <2>4. S!LastByWire'
    BY <2>1, <2>2 DEF S!LastByWire
  <2>5. S!CollectedOnce'
    BY <2>1, <2>2 DEF S!CollectedOnce, S!Upto
  <2>6. S!MarkByPlace' /\ S!SeenIsRegistered' /\ S!TaskOutlivesReply'
    BY <2>1 DEF S!Typed, S!MarkByPlace, S!SeenIsRegistered, S!TaskOutlivesReply, S!FinalGoals,
      S!Source
  <2> QED
    BY <2>3, <2>4, <2>5, <2>6
<1>7. CASE S!ReadTask
  <2>1. /\ UNCHANGED <<c1, c3, c4, c5, c6, c7, c8, c9, c10>>
        /\ c2 = "reading" /\ c2' = "scheduling" /\ c11' \in {c3, "unknown"}
    BY <1>7 DEF S!ReadTask, S!Unread
  <2>2. S!Typed' /\ S!LastByWire' /\ S!CollectedOnce'
    BY <2>1 DEF S!Typed, S!LastByWire, S!CollectedOnce, S!Upto
  <2>3. S!MarkByPlace' /\ S!SeenIsRegistered' /\ S!TaskOutlivesReply'
    BY <2>1 DEF S!Typed, S!MarkByPlace, S!SeenIsRegistered, S!TaskOutlivesReply, S!FinalGoals, S!Source
  <2> QED
    BY <2>2, <2>3
<1>8. CASE S!Schedule
  <2>1. /\ UNCHANGED <<c1, c3, c4, c5, c6, c7, c8, c10, c11>>
        /\ c2 = "scheduling" /\ c2' = "ended"
        /\ c9' = IF S!Source /\ (c1.task \/ c7) THEN IF S!Keep THEN "retain" ELSE "dispose" ELSE c9
    BY <1>8 DEF S!Schedule
  <2>2. S!Typed' /\ S!LastByWire' /\ S!CollectedOnce'
    BY <2>1 DEF S!Typed, S!LastByWire, S!CollectedOnce, S!Upto, S!Marks
  <2>3. S!MarkByPlace' /\ S!SeenIsRegistered' /\ S!TaskOutlivesReply'
    BY <2>1 DEF S!Typed, S!MarkByPlace, S!SeenIsRegistered, S!TaskOutlivesReply, S!FinalGoals,
      S!Source, S!Keep
  <2> QED
    BY <2>2, <2>3
<1>9. CASE S!CancelReading
  <2>1. /\ UNCHANGED <<c1, c3, c4, c5, c6, c7, c8, c9, c10>>
        /\ c2 = "reading" /\ c2' = "ended" /\ c11' = "cancelled"
    BY <1>9 DEF S!CancelReading
  <2>2. S!Typed' /\ S!LastByWire' /\ S!CollectedOnce'
    BY <2>1 DEF S!Typed, S!LastByWire, S!CollectedOnce, S!Upto
  <2>3. S!MarkByPlace' /\ S!SeenIsRegistered' /\ S!TaskOutlivesReply'
    BY <2>1 DEF S!Typed, S!Marks, S!MarkByPlace, S!SeenIsRegistered, S!TaskOutlivesReply, S!FinalGoals,
      S!Source
  <2> QED
    BY <2>2, <2>3
<1>10. CASE S!GoalEnds
  <2>1. /\ UNCHANGED <<c1, c2, c4, c5, c6, c7, c8, c9, c10, c11>>
        /\ c3 = "running" /\ c3' \in S!FinalGoals
    BY <1>10 DEF S!GoalEnds
  <2>2. S!Typed' /\ S!LastByWire' /\ S!CollectedOnce'
    BY <2>1 DEF S!Typed, S!LastByWire, S!CollectedOnce, S!Upto
  <2>3. S!MarkByPlace' /\ S!SeenIsRegistered' /\ S!TaskOutlivesReply'
    BY <2>1 DEF S!MarkByPlace, S!SeenIsRegistered, S!TaskOutlivesReply, S!FinalGoals, S!Source
  <2> QED
    BY <2>2, <2>3
<1>11. CASE S!Sweep
  <2>1. /\ UNCHANGED <<c1, c2, c3, c4, c5, c6, c7, c8, c9, c11>>
        /\ c9 = "dispose" /\ c10' = TRUE
    BY <1>11 DEF S!Sweep
  <2>2. S!Typed' /\ S!LastByWire' /\ S!CollectedOnce'
    BY <2>1 DEF S!Typed, S!LastByWire, S!CollectedOnce, S!Upto
  <2>3. S!MarkByPlace' /\ S!SeenIsRegistered' /\ S!TaskOutlivesReply'
    BY <2>1 DEF S!MarkByPlace, S!SeenIsRegistered, S!TaskOutlivesReply, S!FinalGoals, S!Source
  <2> QED
    BY <2>2, <2>3
<1>12. CASE UNCHANGED S!chvars
  BY <1>12 DEF S!chvars, S!Typed, S!LastByWire, S!MarkByPlace, S!CollectedOnce, S!Upto,
    S!SeenIsRegistered, S!TaskOutlivesReply, S!Source
<1> QED
  BY <1>1, <1>2, <1>3, <1>4, <1>5, <1>6, <1>7, <1>8, <1>9, <1>10, <1>11, <1>12 DEF S!Next

(* In every behaviour of a chat call, for every answer and any number of    *)
(* frames, what is collected is what was sent up to the last frame that     *)
(* arrived; a chat the call has seen is registered when it ends; and the    *)
(* chat of a Task is deleted only after the Task (streams.py, chat.py:430). *)
THEOREM RepliesAreKept == Spec => []RepliesAreAccounted
<1>1. Init => ChatPart
  BY ChatInit DEF Init, ChatPart
<1>2. ChatPart /\ [Next]_vars => ChatPart'
  <2> SUFFICES ASSUME ChatPart, [Next]_vars, part' = "chat"
               PROVE  S!Inv'
    BY DEF ChatPart
  <2>1. part = "chat" /\ [S!Next]_(S!chvars)
    BY DEF Next, vars, cells, S!chvars
  <2> QED
    BY <2>1, ChatStep DEF ChatPart
<1>3. ChatPart => RepliesAreAccounted
  BY DEF ChatPart, RepliesAreAccounted, S!Inv
<1> QED
  BY <1>1, <1>2, <1>3, PTL DEF Spec

-----------------------------------------------------------------------------
(* What an answer proves.  Of its cells, c1 is contract, c2 expected, c3    *)
(* truth, c4 answer, c5 deviations, c6 posts, c7 phase and c8 verdict.      *)

AnswerPart == part = "answer" => E!Inv

AnswerBody == [kind : E!Kinds, rows : Seq(E!Rows), meta : {"good", "odd"}]
AnswerPieces(a) ==
    /\ a \in [status : {200, 403}, json : BOOLEAN, parts : Seq(E!Parts)]
    /\ \A j \in DOMAIN a.parts : a.parts[j].rpc = "ours" => E!Became(a.parts[j].body)
AnswerQuiet(p) == p.status = "empty" => c3.rows = <<>>
AnswerBlank(b) == c1.parser \in {"opaque", "mutation_ack"} /\ b.kind = "blank"
AnswerHollow(b) == c1.parser \in E!ByPath /\ \A r \in E!Range(b.rows) : r.form = "hollow"
AnswerTaken(p, b) ==
    p.status = "success" =>
        /\ \A i \in DOMAIN p.rows : i \in DOMAIN c3.rows /\ p.rows[i].id \in {"unnamed", c3.rows[i].id}
        /\ \A i \in DOMAIN c3.rows \ DOMAIN p.rows : b.rows[i].form = "hollow"
AnswerWhole(p) == p.status = "success" => p.rows = c3.rows
AnswerCounted(p) == p.status = "success" => Len(p.rows) = Len(c3.rows)
AnswerAsked(p) ==
    p.status = "success" => /\ p.rows[1].id = c3.rows[1].id
                            /\ c2 # "any" => p.rows[1].id = c2

(* Gemini names every object that it lists, and lists none elsewhere.       *)
LEMMA AnswerTruth ==
    ASSUME c3 \in E!Truths
    PROVE  /\ c3 \in AnswerBody
           /\ c3.kind \notin {"none", "text", "blank"}
           /\ c3.kind # "list" => c3.rows = <<>>
           /\ \A k \in DOMAIN c3.rows : c3.rows[k].id \in Identities /\ c3.rows[k].form = "good"
<1>1. CASE \E kind \in E!Literals \ {"text", "blank"} : c3 = E!Body(kind, <<>>)
  <2>1. PICK kind \in E!Literals \ {"text", "blank"} : c3 = E!Body(kind, <<>>)
    BY <1>1
  <2>2. c3 = [kind |-> kind, rows |-> <<>>, meta |-> "good"]
    BY <2>1 DEF E!Body
  <2>3. kind \in E!Kinds /\ kind \notin {"none", "text", "blank", "list"} /\ <<>> \in Seq(E!Rows)
    BY DEF E!Kinds, E!Literals
  <2> QED
    BY <2>2, <2>3 DEF AnswerBody
<1>2. CASE \E ids \in Listings : c3 = E!Body("list", [i \in DOMAIN ids |-> E!Row(ids[i])])
  <2>1. PICK ids \in Listings : c3 = E!Body("list", [i \in DOMAIN ids |-> E!Row(ids[i])])
    BY <1>2
  <2>2. ids \in Seq(Identities)
    BY ValuesAssumption
  <2> DEFINE rows == [i \in DOMAIN ids |-> E!Row(ids[i])]
  <2>3. /\ DOMAIN rows = DOMAIN ids
        /\ \A k \in DOMAIN rows : /\ rows[k] = [id |-> ids[k], form |-> "good"]
                                  /\ ids[k] \in Identities
    BY <2>2 DEF E!Row
  <2>4. \A k \in DOMAIN rows : /\ rows[k] \in E!Rows
                               /\ rows[k].id \in Identities /\ rows[k].form = "good"
    BY <2>3 DEF E!Rows
  <2>5. rows \in Seq(E!Rows)
    <3>1. rows = [i \in 1..Len(ids) |-> E!Row(ids[i])] /\ Len(ids) \in Nat
      BY <2>2
    <3>2. \A i \in 1..Len(ids) : E!Row(ids[i]) \in E!Rows
      BY <2>3, <2>4, <3>1
    <3> QED
      BY <3>1, <3>2, IsASeq
  <2>6. c3 = [kind |-> "list", rows |-> rows, meta |-> "good"] /\ "list" \in E!Kinds
    BY <2>1 DEF E!Body, E!Kinds
  <2> HIDE DEF rows
  <2> QED
    BY <2>4, <2>5, <2>6 DEF AnswerBody
<1> QED
  BY <1>1, <1>2 DEF E!Truths

(* The rows of a listing whose objects are named are those of the truth.    *)
LEMMA AnswerItems ==
    ASSUME c3 \in E!Truths, NEW b \in AnswerBody, E!Became(b), b.kind # "none",
           NEW forms, NEW named \in BOOLEAN
    PROVE  LET p == E!Items(b, forms, named)
           IN  AnswerQuiet(p) /\ AnswerCounted(p)
               /\ (forms = E!Good /\ named => AnswerWhole(p))
<1>1. /\ c3 \in AnswerBody /\ c3.rows \in Seq(E!Rows) /\ b.rows \in Seq(E!Rows)
      /\ \A k \in DOMAIN c3.rows : c3.rows[k].form = "good"
  BY AnswerTruth DEF AnswerBody
<1>2. CASE b.kind # "list"
  BY <1>2 DEF E!Items, E!Changed, E!Parsed, AnswerQuiet, AnswerCounted, AnswerWhole
<1>3. CASE b.kind = "list"
  <2>1. /\ Len(b.rows) = Len(c3.rows)
        /\ \A k \in DOMAIN c3.rows : b.rows[k].id \in {"unnamed", c3.rows[k].id}
    BY <1>3 DEF E!Became
  <2>2. b.rows = <<>> => c3.rows = <<>>
    BY <1>1, <2>1, EmptySeq
  <2>3. AnswerQuiet(E!Items(b, forms, named)) /\ AnswerCounted(E!Items(b, forms, named))
    BY <2>1, <2>2 DEF E!Items, E!Changed, E!Empty, E!Success, E!Parsed, AnswerQuiet, AnswerCounted
  <2>4. ASSUME forms = E!Good, named, E!Items(b, forms, named).status = "success"
        PROVE  b.rows = c3.rows
    <3>1. \A r \in E!Range(b.rows) : r.form \in E!Good /\ r.id # "unnamed"
      BY <2>4 DEF E!Items, E!Changed, E!Parsed
    <3>2. \A k \in DOMAIN b.rows : /\ b.rows[k] \in E!Rows
                                   /\ b.rows[k].form = "good" /\ b.rows[k].id # "unnamed"
      BY <1>1, <3>1 DEF E!Range, E!Good
    <3>3. DOMAIN b.rows = DOMAIN c3.rows /\ \A k \in DOMAIN c3.rows : c3.rows[k] \in E!Rows
      BY <1>1, <2>1
    <3>4. \A k \in DOMAIN b.rows : b.rows[k] = c3.rows[k]
      BY <1>1, <2>1, <3>2, <3>3 DEF E!Rows
    <3> QED
      BY <1>1, <2>1, <3>4, SeqEqual
  <2>5. E!Items(b, forms, named).status = "success" => E!Items(b, forms, named).rows = b.rows
    BY DEF E!Items, E!Changed, E!Empty, E!Success, E!Parsed
  <2> QED
    BY <2>3, <2>4, <2>5 DEF AnswerWhole
<1> QED
  BY <1>2, <1>3

(* A record is the first row, named, and of the identity asked for.         *)
LEMMA AnswerRecord ==
    ASSUME c3 \in E!Truths, NEW b \in AnswerBody, E!Became(b), b.kind # "none",
           NEW forms, NEW asked
    PROVE  LET p == E!RecordOf(b, forms, asked)
           IN  /\ p.status \in {"success", "changed_shape"}
               /\ p.status = "success" => /\ p.rows[1].id = c3.rows[1].id
                                          /\ asked # "any" => p.rows[1].id = asked
<1>1. c3.rows \in Seq(E!Rows) /\ b.rows \in Seq(E!Rows)
  BY AnswerTruth DEF AnswerBody
<1>2. E!RecordOf(b, forms, asked).status \in {"success", "changed_shape"}
  BY DEF E!RecordOf, E!Changed, E!Success, E!Parsed
<1>3. ASSUME E!RecordOf(b, forms, asked).status = "success"
      PROVE  /\ E!RecordOf(b, forms, asked).rows[1].id = c3.rows[1].id
             /\ asked # "any" => E!RecordOf(b, forms, asked).rows[1].id = asked
  <2>1. /\ b.kind = "list" /\ b.rows # <<>> /\ b.rows[1].id # "unnamed"
        /\ asked \in {"any", b.rows[1].id} /\ E!RecordOf(b, forms, asked) = E!Success(<<b.rows[1]>>)
    BY <1>3 DEF E!RecordOf, E!Changed, E!Parsed
  <2>2. E!RecordOf(b, forms, asked).rows[1] = b.rows[1]
    BY <2>1 DEF E!Success, E!Parsed
  <2>3. /\ Len(b.rows) = Len(c3.rows)
        /\ \A k \in DOMAIN c3.rows : b.rows[k].id \in {"unnamed", c3.rows[k].id}
    BY <2>1 DEF E!Became
  <2>4. 1 \in DOMAIN c3.rows
    BY <1>1, <2>1, <2>3, EmptySeq
  <2> QED
    BY <2>1, <2>2, <2>3, <2>4
<1> QED
  BY <1>2, <1>3

(* What a chat's turns hold is told in its place, or its place is hollow.   *)
LEMMA AnswerDug ==
    ASSUME c3 \in E!Truths, NEW b \in AnswerBody, E!Became(b), c1.parser \in E!ByPath
    PROVE  /\ AnswerQuiet(E!Parse(b)) \/ AnswerHollow(b)
           /\ AnswerTaken(E!Parse(b), b)
<1>1. c3.rows \in Seq(E!Rows) /\ b.rows \in Seq(E!Rows)
  BY AnswerTruth DEF AnswerBody
<1>2. E!Parse(b) \in {E!Changed, E!MusicChat(b)}
  BY DEF E!ByPath, E!Parse, E!CanvasChat
<1>3. E!MusicChat(b) \in {E!Changed, E!Empty, E!Success(E!Restrict(b.rows, E!Held(b)))}
  BY DEF E!MusicChat
<1>4. ASSUME E!MusicChat(b) = E!Empty
      PROVE  AnswerHollow(b)
  <2>1. E!Held(b) = {}
    BY <1>4 DEF E!MusicChat, E!Changed, E!Empty, E!Success, E!Parsed
  <2> QED
    BY <2>1 DEF E!Held, AnswerHollow, E!Range
<1>5. ASSUME E!MusicChat(b) = E!Success(E!Restrict(b.rows, E!Held(b)))
      PROVE  AnswerTaken(E!MusicChat(b), b)
  <2>1. b.kind = "list"
    BY <1>5 DEF E!MusicChat, E!Changed, E!Success, E!Parsed
  <2>2. /\ DOMAIN b.rows = DOMAIN c3.rows
        /\ \A k \in DOMAIN c3.rows : b.rows[k].id \in {"unnamed", c3.rows[k].id}
    BY <1>1, <2>1 DEF E!Became
  <2> DEFINE rows == E!Restrict(b.rows, E!Held(b))
  <2>3. DOMAIN rows = E!Held(b) /\ \A i \in E!Held(b) : rows[i] = b.rows[i]
    BY DEF E!Restrict
  <2>4. E!MusicChat(b).rows = rows
    BY <1>5 DEF E!Success, E!Parsed
  <2> HIDE DEF rows
  <2> QED
    BY <2>2, <2>3, <2>4 DEF E!Held, AnswerTaken
<1>6. /\ AnswerTaken(E!Changed, b) /\ AnswerTaken(E!Empty, b) /\ AnswerQuiet(E!Changed)
      /\ \A rows : AnswerQuiet(E!Success(rows))
  BY DEF AnswerTaken, AnswerQuiet, E!Changed, E!Empty, E!Success, E!Parsed
<1> QED
  BY <1>2, <1>3, <1>4, <1>5, <1>6

(* The parsers that neither list nor read or create one record.              *)
AnswerOther == {"native_void_ack", "notebook_update_ack", "remy_void_ack", "library_delete",
                "sharing_void_ack", "opaque", "mutation_ack"}
LEMMA AnswerParsers ==
    ASSUME c1 \in E!Contracts, ~E!Listing, ~E!Nameless, ~E!ByIdentity, c1.parser \notin E!ByPath,
           c1.parser \notin {"notebook_created", "scheduled_create", "public_link_create"}
    PROVE  c1.parser \in AnswerOther
<1> USE DEF AnswerOther, E!Listing, E!Nameless, E!ByIdentity, E!ByPath
<1>1. /\ \A parsers : \A c \in E!Reads(parsers) : c.parser \in parsers
      /\ \A parsers : \A c \in E!Mutates(parsers) : c.parser \in parsers
  BY DEF E!Reads, E!Mutates
<1>2. c1 \notin E!ChatContracts
  BY <1>1 DEF E!ChatContracts
<1>3. CASE c1 \in E!AccountContracts
  BY <1>1, <1>3 DEF E!AccountContracts
<1>4. CASE c1 \in E!NotebookContracts
  BY <1>1, <1>4 DEF E!NotebookContracts
<1>5. CASE c1 \in E!SkillContracts
  BY <1>1, <1>5 DEF E!SkillContracts
<1>6. CASE c1 \in E!SettingsContracts
  BY <1>1, <1>6 DEF E!SettingsContracts
<1>7. CASE c1 \in E!RemyContracts
  BY <1>1, <1>7 DEF E!RemyContracts
<1>8. CASE c1 \in E!ScheduledContracts
  BY <1>1, <1>8 DEF E!ScheduledContracts
<1>9. CASE c1 \in E!AssetContracts
  BY <1>1, <1>9 DEF E!AssetContracts
<1> QED
  BY <1>2, <1>3, <1>4, <1>5, <1>6, <1>7, <1>8, <1>9 DEF E!Contracts

LEMMA AnswerLists ==
    ASSUME c1 \in E!Contracts, c3 \in E!Truths, NEW b \in AnswerBody, E!Became(b), b.kind # "none"
    PROVE  /\ AnswerQuiet(E!Parse(b)) \/ AnswerBlank(b) \/ AnswerHollow(b)
           /\ c1.parser \in E!ByPath => AnswerTaken(E!Parse(b), b)
           /\ E!Listing => AnswerWhole(E!Parse(b))
           /\ E!Nameless => AnswerCounted(E!Parse(b))
           /\ E!ByIdentity => AnswerAsked(E!Parse(b))
<1>1. b.kind = c3.kind \/ b.kind \in {"text", "blank"}
  BY DEF E!Became
<1>2. b.kind \in E!Literals \ {"text", "blank"} => c3.rows = <<>>
  BY <1>1, AnswerTruth DEF E!Literals
<1>3. ASSUME b.kind \in E!Literals \ {"text", "blank"}
      PROVE  AnswerQuiet(E!Empty) /\ AnswerWhole(E!Empty) /\ AnswerAsked(E!Empty)
  BY <1>2, <1>3 DEF AnswerQuiet, AnswerWhole, AnswerAsked, E!Empty, E!Parsed
<1>4. /\ AnswerQuiet(E!Changed) /\ AnswerWhole(E!Changed) /\ AnswerCounted(E!Changed)
      /\ AnswerAsked(E!Changed)
  BY DEF AnswerQuiet, AnswerWhole, AnswerCounted, AnswerAsked, E!Changed, E!Parsed
<1>5. \A rows : AnswerQuiet(E!Success(rows))
  BY DEF AnswerQuiet, E!Success, E!Parsed
<1>6. AnswerQuiet(E!Items(b, E!Good, TRUE)) /\ AnswerWhole(E!Items(b, E!Good, TRUE))
  BY AnswerItems
<1>7. /\ \A p : AnswerQuiet(p) => AnswerQuiet(E!Unique(p))
      /\ \A p : AnswerWhole(p) => AnswerWhole(E!Unique(p))
  BY <1>4 DEF E!Unique
<1>8. {"nothing", "null", "of_null", "of_nulls"} \subseteq E!Literals \ {"text", "blank"}
  BY DEF E!Literals
<1>9. ASSUME E!Listing
      PROVE  AnswerQuiet(E!Parse(b)) /\ AnswerWhole(E!Parse(b))
  <2>1. CASE c1.parser = "conversation_page"
    BY <1>4, <1>6, <2>1 DEF E!Parse, E!ConversationPage
  <2>2. CASE c1.parser = "notebook_list"
    BY <1>4, <1>6, <2>2 DEF E!Parse, E!NotebookList
  <2>3. CASE c1.parser = "native_skill_list"
    BY <1>3, <1>6, <1>7, <1>8, <2>3 DEF E!Parse, E!SkillList
  <2>4. CASE c1.parser = "custom_gems"
    BY <1>6, <2>4 DEF E!Parse, E!GemRegistry
  <2>5. CASE c1.parser = "scheduled_registry"
    BY <1>3, <1>6, <1>8, <2>5 DEF E!Parse, E!ScheduledRegistry
  <2>6. CASE c1.parser = "remy_schedule_registry"
    BY <1>3, <1>4, <1>6, <1>8, <2>6 DEF E!Parse, E!RemyRegistry, E!Nulls
  <2>7. CASE c1.parser = "public_links"
    BY <1>3, <1>6, <1>8, <2>7 DEF E!Parse, E!PublicLinks
  <2>55. CASE c1.parser = "library_page"
    BY <1>3, <1>4, <1>6, <1>7, <1>8, <2>55 DEF E!Parse, E!LibraryPage, E!Nulls
  <2>9. CASE c1.parser = "canvas_versions"
    BY <1>3, <1>6, <1>7, <1>8, <2>9 DEF E!Parse, E!CanvasVersions, E!Nulls
  <2> QED
    BY <1>9, <2>1, <2>2, <2>3, <2>4, <2>5, <2>6, <2>7, <2>55, <2>9 DEF E!Listing
<1>10. ASSUME E!Nameless
       PROVE  AnswerQuiet(E!Parse(b)) /\ AnswerCounted(E!Parse(b))
  <2>1. \A forms : \A named \in BOOLEAN :
          AnswerQuiet(E!Items(b, forms, named)) /\ AnswerCounted(E!Items(b, forms, named))
    BY AnswerItems
  <2>2. \/ E!Parse(b) = E!Items(b, E!Good, FALSE)
        \/ E!Parse(b) = E!Items(b, E!Good \cup {"odd"}, FALSE)
    BY <1>10 DEF E!Nameless, E!Parse, E!RemyGoals, E!Usage, E!Capabilities, E!ToolModes
  <2> QED
    BY <2>1, <2>2
<1>11. \A forms, asked :
         /\ AnswerQuiet(E!RecordOf(b, forms, asked))
         /\ asked = c2 => AnswerAsked(E!RecordOf(b, forms, asked))
  BY AnswerRecord DEF AnswerQuiet, AnswerAsked
<1>12. AnswerQuiet(E!Record(b)) /\ AnswerAsked(E!Record(b))
  BY <1>11 DEF E!Record
<1>13. ASSUME E!ByIdentity
       PROVE  AnswerQuiet(E!Parse(b)) /\ AnswerAsked(E!Parse(b))
  <2>1. CASE c1.parser \in {"notebook_get", "native_skill_get", "remy_schedule_get", "task_goal",
                            "scheduled_get", "canvas_artifact", "native_skill_save"}
    <3>1. \/ E!Parse(b) = E!Empty /\ b.kind \in {"nothing", "of_null"}
          \/ E!Parse(b) = E!Record(b)
      BY <2>1 DEF E!Parse, E!NotebookGet, E!SkillGet, E!RemyGet, E!TaskGoal, E!ScheduledGet,
        E!CanvasGet, E!SkillSave
    <3> QED
      BY <1>3, <1>8, <1>12, <3>1
  <2>2. CASE c1.parser = "notebook_source_created"
    <3>1. \/ E!Parse(b) = E!Empty /\ b.kind = "nothing"
          \/ E!Parse(b) \in {E!Record(b), E!Changed}
      BY <2>2 DEF E!Parse, E!SourceCreated, E!NotebookGet
    <3> QED
      BY <1>3, <1>4, <1>8, <1>12, <3>1
  <2>3. CASE c1.parser \in {"notebook_move", "conversation_update"}
    <3>1. \/ E!Parse(b) = E!Empty /\ b.kind \in {"nothing", "of_nulls"}
          \/ E!Parse(b) \in {E!RecordOf(b, E!Good \cup {"odd"}, c2), E!Changed}
      BY <2>3 DEF E!Parse, E!ConversationUpdate, E!NotebookMove
    <3> QED
      BY <1>3, <1>4, <1>8, <1>11, <3>1
  <2> QED
    BY <1>13, <2>1, <2>2, <2>3 DEF E!ByIdentity
<1>14. ASSUME ~E!Listing, ~E!Nameless, ~E!ByIdentity, c1.parser \notin E!ByPath
       PROVE  AnswerQuiet(E!Parse(b)) \/ AnswerBlank(b)
  <2>1. CASE c1.parser \in {"notebook_created", "scheduled_create", "public_link_create"}
    <3>1. \/ E!Parse(b) = E!Empty /\ b.kind = "nothing"
          \/ E!Parse(b) = E!RecordOf(b, E!Good, "any")
      BY <2>1 DEF E!Parse, E!NotebookCreated, E!ScheduledCreate, E!LinkCreate
    <3> QED
      BY <1>3, <1>8, <1>11, <3>1
  <2>2. CASE c1.parser \notin {"notebook_created", "scheduled_create", "public_link_create"}
    <3>1. \/ E!Parse(b) = E!Empty /\ (b.kind \in {"nothing", "null"} \/ AnswerBlank(b))
          \/ E!Parse(b) \in {E!Changed, E!Parsed("rejected", <<>>)}
          \/ \E rows : E!Parse(b) = E!Success(rows)
      <4>1. CASE c1.parser \in {"native_void_ack", "notebook_update_ack", "remy_void_ack",
                                "library_delete", "sharing_void_ack"}
        BY <4>1 DEF E!Parse, E!NativeVoid, E!NotebookUpdated, E!RemyVoid, E!LibraryDelete,
          E!SharingVoid
      <4>2. CASE c1.parser \in {"opaque", "mutation_ack"}
        BY <4>2 DEF E!Parse, E!Opaque, E!MutationAck, AnswerBlank
      <4> QED
        BY <1>14, <2>2, <4>1, <4>2, AnswerParsers DEF AnswerOther
    <3>2. AnswerQuiet(E!Parsed("rejected", <<>>))
      BY DEF AnswerQuiet, E!Parsed
    <3> QED
      BY <1>3, <1>4, <1>5, <1>8, <3>1, <3>2
  <2> QED
    BY <2>1, <2>2
<1>15. c1.parser \in E!ByPath => ~E!Listing /\ ~E!Nameless /\ ~E!ByIdentity
  BY DEF E!ByPath, E!Listing, E!Nameless, E!ByIdentity
<1> QED
  BY <1>9, <1>10, <1>13, <1>14, <1>15, AnswerDug

LEMMA AnswerInit == E!Init => E!Inv
<1> SUFFICES ASSUME E!Init
             PROVE  E!Inv
  OBVIOUS
<1>1. /\ c1 \in E!Contracts /\ c2 \in Identities \cup {"any"} /\ c3 \in E!Truths
      /\ c4 = [status |-> 200, json |-> TRUE,
               parts |-> <<[rpc |-> "ours", rejected |-> FALSE, body |-> c3]>>]
      /\ c5 = 0 /\ c6 = 0 /\ c7 = "post" /\ c8 = E!Unread
  BY DEF E!Init
<1>2. [rpc |-> "ours", rejected |-> FALSE, body |-> c3] \in E!Parts
  BY <1>1, AnswerTruth DEF AnswerBody, E!Parts
<1>3. /\ c4.parts = <<[rpc |-> "ours", rejected |-> FALSE, body |-> c3]>>
      /\ c4.parts \in Seq(E!Parts)
  <2>1. PICK piece \in E!Parts : piece = [rpc |-> "ours", rejected |-> FALSE, body |-> c3]
    BY <1>2
  <2>2. c4.parts = <<piece>>
    BY <1>1, <2>1
  <2> QED
    BY <2>1, <2>2
<1>4. E!Typed
  <2>1. c4 \in [status : {200, 403}, json : BOOLEAN, parts : Seq(E!Parts)]
    BY <1>1, <1>3
  <2> QED
    BY <1>1, <2>1 DEF E!Typed, E!Unread
<1>5. E!Became(c3)
  BY <1>1, AnswerTruth DEF E!Became
<1>6. E!Traceable
  BY <1>3, <1>5 DEF E!Traceable, E!Matching
<1>7. E!PostsByPhase /\ E!ChangesOnce
  BY <1>1 DEF E!PostsByPhase, E!ChangesOnce, E!Attempts
<1>8. E!EvidenceIsWhole /\ E!EmptyIsSaid /\ E!ReadingsAgree
  BY <1>1 DEF E!EvidenceIsWhole, E!EmptyIsSaid, E!ReadingsAgree, E!Unread
<1> QED
  BY <1>4, <1>6, <1>7, <1>8 DEF E!Inv

(* The request goes out, or goes out again.                                 *)
LEMMA AnswerPosts ==
    ASSUME E!Inv, E!Post \/ E!Resend
    PROVE  E!Inv'
<1> USE DEF E!Inv
<1>1. /\ UNCHANGED <<c1, c2, c3, c4, c5, c8>>
      /\ c7' \in {"post", "arrived", "lost"} /\ c6 \in Nat /\ c6' \in {c6, c6 + 1}
  BY DEF E!Post, E!Resend, E!Typed
<1>2. E!Typed'
  <2>1. ~c8.account
    BY DEF E!Typed, E!Post, E!Resend
  <2> QED
    BY <1>1, <2>1 DEF E!Typed
<1>3. E!Traceable'
  BY <1>1 DEF E!Traceable, E!Matching, E!Became
<1>4. E!PostsByPhase'
  <2>1. E!Attempts' = E!Attempts /\ E!Attempts \in Nat
    BY <1>1 DEF E!Attempts
  <2> QED
    BY <1>1, <2>1 DEF E!Post, E!Resend, E!PostsByPhase
<1>5. E!ChangesOnce'
  BY <1>1, <1>2, <1>4 DEF E!Typed, E!PostsByPhase, E!ChangesOnce, E!Attempts
<1>6. E!EvidenceIsWhole' /\ E!EmptyIsSaid' /\ E!ReadingsAgree'
  BY <1>1, <1>2 DEF E!Typed, E!EvidenceIsWhole, E!EmptyIsSaid, E!ReadingsAgree
<1> QED
  BY <1>2, <1>3, <1>4, <1>5, <1>6

(* However an answer deviates, its parts come from what was composed.       *)
LEMMA AnswerBreaks ==
    ASSUME E!Typed, E!Traceable, NEW i \in E!Matching,
           NEW b \in AnswerBody, E!Became(b), c4' = E!SetBody(i, b)
    PROVE  /\ c4'.status = c4.status /\ c4'.json = c4.json /\ c4'.parts \in Seq(E!Parts)
           /\ \A j \in DOMAIN c4'.parts :
                 c4'.parts[j].rpc = "ours" => E!Became(c4'.parts[j].body)
<1>1. c4 \in [status : {200, 403}, json : BOOLEAN, parts : Seq(E!Parts)]
  BY DEF E!Typed
<1> DEFINE piece == [c4.parts[i] EXCEPT !.body = b]
<1>2. i \in 1..Len(c4.parts) /\ c4.parts[i] \in E!Parts /\ c4.parts \in Seq(E!Parts)
  BY <1>1 DEF E!Matching
<1>3. piece \in E!Parts /\ piece.body = b
  BY <1>2 DEF E!Parts, AnswerBody
<1>4. c4' = [c4 EXCEPT !.parts = [c4.parts EXCEPT ![i] = piece]]
  BY <1>1, <1>2 DEF E!SetBody
<1> HIDE DEF piece
<1>5. c4'.parts = [c4.parts EXCEPT ![i] = piece] /\ c4'.status = c4.status /\ c4'.json = c4.json
  BY <1>1, <1>4
<1>6. /\ c4'.parts \in Seq(E!Parts) /\ DOMAIN c4'.parts = DOMAIN c4.parts
      /\ \A j \in DOMAIN c4.parts : c4'.parts[j] = IF j = i THEN piece ELSE c4.parts[j]
  BY <1>2, <1>3, <1>5, ExceptSeq
<1>7. \A j \in DOMAIN c4.parts : c4.parts[j].rpc = "ours" => E!Became(c4.parts[j].body)
  BY DEF E!Traceable, E!Matching
<1> QED
  BY <1>3, <1>5, <1>6, <1>7

LEMMA AnswerRows ==
    ASSUME E!Typed, NEW b \in AnswerBody, E!Became(b), NEW k \in DOMAIN b.rows
    PROVE  /\ \A form \in {"odd", "scalar", "hollow"} :
                 /\ [b EXCEPT !.rows[k].form = form] \in AnswerBody
                 /\ E!Became([b EXCEPT !.rows[k].form = form])
           /\ [b EXCEPT !.rows[k].id = "unnamed"] \in AnswerBody
           /\ E!Became([b EXCEPT !.rows[k].id = "unnamed"])
<1>1. b.rows \in Seq(E!Rows) /\ k \in 1..Len(b.rows) /\ b.rows[k] \in E!Rows
  BY DEF AnswerBody
<1>2. b.rows # <<>>
  BY <1>1, EmptySeq
<1>3. /\ b.kind = c3.kind /\ Len(b.rows) = Len(c3.rows) /\ c3.rows \in Seq(E!Rows)
      /\ \A n \in DOMAIN c3.rows : b.rows[n].id \in {"unnamed", c3.rows[n].id}
  BY <1>2, AnswerTruth DEF E!Became, E!Typed, AnswerBody
<1>4. ASSUME NEW row \in E!Rows, row.id \in {"unnamed", b.rows[k].id}
      PROVE  /\ [b EXCEPT !.rows = [b.rows EXCEPT ![k] = row]] \in AnswerBody
             /\ E!Became([b EXCEPT !.rows = [b.rows EXCEPT ![k] = row]])
  <2>1. PICK rows : rows = [b.rows EXCEPT ![k] = row]
    OBVIOUS
  <2>2. /\ rows \in Seq(E!Rows) /\ Len(rows) = Len(b.rows)
        /\ \A n \in 1..Len(b.rows) : rows[n] = IF n = k THEN row ELSE b.rows[n]
    BY <1>1, <1>4, <2>1, ExceptSeq
  <2>3. [b EXCEPT !.rows = rows] \in AnswerBody
    BY <2>2 DEF AnswerBody
  <2>4. PICK c \in AnswerBody : c = [b EXCEPT !.rows = rows]
    BY <2>3
  <2>5. c.rows = rows /\ c.kind = b.kind
    BY <2>4 DEF AnswerBody
  <2>6. \A n \in DOMAIN c3.rows : n \in 1..Len(b.rows)
    BY <1>1, <1>3
  <2>7. E!Became(c)
    BY <1>3, <1>4, <2>2, <2>5, <2>6 DEF E!Became
  <2> QED
    BY <2>1, <2>3, <2>4, <2>7
<1>5. \A form \in {"odd", "scalar", "hollow"} :
        [b EXCEPT !.rows[k].form = form]
          = [b EXCEPT !.rows = [b.rows EXCEPT ![k] = [b.rows[k] EXCEPT !.form = form]]]
  BY <1>1 DEF AnswerBody
<1>6. [b EXCEPT !.rows[k].id = "unnamed"]
        = [b EXCEPT !.rows = [b.rows EXCEPT ![k] = [b.rows[k] EXCEPT !.id = "unnamed"]]]
  BY <1>1 DEF AnswerBody
<1>7. \A form \in {"odd", "scalar", "hollow"} :
        /\ [b.rows[k] EXCEPT !.form = form] \in E!Rows
        /\ [b.rows[k] EXCEPT !.form = form].id = b.rows[k].id
  BY <1>1 DEF E!Rows
<1>8. [b.rows[k] EXCEPT !.id = "unnamed"] \in E!Rows /\ [b.rows[k] EXCEPT !.id = "unnamed"].id = "unnamed"
  BY <1>1 DEF E!Rows
<1> QED
  BY <1>4, <1>5, <1>6, <1>7, <1>8

LEMMA AnswerWithParts ==
    ASSUME E!Typed, NEW parts \in Seq(E!Parts), c4' = [c4 EXCEPT !.parts = parts],
           \A j \in DOMAIN parts :
              \/ parts[j].rpc = "ours" => E!Became(parts[j].body)
              \/ \E k \in DOMAIN c4.parts : parts[j] = c4.parts[k],
           E!Traceable
    PROVE  AnswerPieces(c4')
<1>1. c4 \in [status : {200, 403}, json : BOOLEAN, parts : Seq(E!Parts)]
  BY DEF E!Typed
<1>2. c4'.parts = parts /\ c4' \in [status : {200, 403}, json : BOOLEAN, parts : Seq(E!Parts)]
  BY <1>1
<1>3. \A k \in DOMAIN c4.parts : c4.parts[k].rpc = "ours" => E!Became(c4.parts[k].body)
  BY DEF E!Traceable, E!Matching
<1> QED
  BY <1>2, <1>3 DEF AnswerPieces

LEMMA AnswerDeviates ==
    ASSUME E!Inv, E!Deviate
    PROVE  E!Inv'
<1> USE DEF E!Inv
<1>1. UNCHANGED <<c1, c2, c3, c6, c7, c8>> /\ c5' = c5 + 1
  BY DEF E!Deviate
<1>2. /\ c4 \in [status : {200, 403}, json : BOOLEAN, parts : Seq(E!Parts)]
      /\ c4.parts \in Seq(E!Parts) /\ c5 \in Nat
  BY DEF E!Typed
<1>3. \A j \in DOMAIN c4.parts : c4.parts[j].rpc = "ours" => E!Became(c4.parts[j].body)
  BY DEF E!Traceable, E!Matching
<1>4. AnswerPieces(c4')
  <2>1. CASE c4' = [c4 EXCEPT !.status = 403] \/ c4' = [c4 EXCEPT !.json = FALSE]
    <3>1. c4'.parts = c4.parts
      BY <1>2, <2>1
    <3>2. c4' \in [status : {200, 403}, json : BOOLEAN, parts : Seq(E!Parts)]
      <4>1. CASE c4' = [c4 EXCEPT !.status = 403]
        BY <1>2, <4>1
      <4>2. CASE c4' = [c4 EXCEPT !.json = FALSE]
        BY <1>2, <4>2
      <4> QED
        BY <2>1, <4>1, <4>2
    <3> QED
      BY <1>3, <3>1, <3>2 DEF AnswerPieces
  <2>2. ASSUME NEW piece \in E!Parts, c4' = [c4 EXCEPT !.parts = Append(c4.parts, piece)],
               piece.rpc = "ours" => E!Became(piece.body)
        PROVE  AnswerPieces(c4')
    <3>1. PICK parts : parts = Append(c4.parts, piece)
      OBVIOUS
    <3>2. /\ parts \in Seq(E!Parts)
          /\ \A j \in DOMAIN parts :
                parts[j] = piece \/ \E k \in DOMAIN c4.parts : parts[j] = c4.parts[k]
      BY <1>2, <3>1
    <3>3. c4' = [c4 EXCEPT !.parts = parts]
      BY <2>2, <3>1
    <3>4. \A j \in DOMAIN parts :
             \/ parts[j].rpc = "ours" => E!Became(parts[j].body)
             \/ \E k \in DOMAIN c4.parts : parts[j] = c4.parts[k]
      BY <2>2, <3>2
    <3> QED
      BY <3>2, <3>3, <3>4, AnswerWithParts
  <2>3. CASE c4' = [c4 EXCEPT !.parts = Append(@, [rpc |-> "other", rejected |-> FALSE,
                                                    body |-> E!Body("nothing", <<>>)])]
    <3>1. E!Body("nothing", <<>>) \in AnswerBody
      BY DEF E!Body, AnswerBody, E!Kinds, E!Literals
    <3>2. PICK piece \in E!Parts : piece = [rpc |-> "other", rejected |-> FALSE,
                                            body |-> E!Body("nothing", <<>>)]
      BY <3>1 DEF E!Parts, AnswerBody
    <3>3. c4' = [c4 EXCEPT !.parts = Append(c4.parts, piece)]
      BY <1>2, <2>3, <3>2
    <3>4. piece.rpc # "ours"
      BY <3>2
    <3> QED
      BY <2>2, <3>3, <3>4
  <2>4. ASSUME NEW i \in DOMAIN c4.parts, c4.parts[i].rpc = "ours",
               c4' = [c4 EXCEPT !.parts = SubSeq(@, 1, i - 1) \o SubSeq(@, i + 1, Len(@))]
        PROVE  AnswerPieces(c4')
    <3>1. i \in 1..Len(c4.parts) /\ Len(c4.parts) \in Nat
      BY <1>2
    <3> DEFINE before == SubSeq(c4.parts, 1, i - 1)
               after == SubSeq(c4.parts, i + 1, Len(c4.parts))
    <3>2. /\ before \in Seq(E!Parts) /\ Len(before) = i - 1
          /\ \A j \in 1..i - 1 : before[j] = c4.parts[j]
      BY <1>2, <3>1, SubSeqProperties
    <3>3. /\ after \in Seq(E!Parts) /\ Len(after) = Len(c4.parts) - i
          /\ \A j \in 1..Len(c4.parts) - i : after[j] = c4.parts[i + j]
      BY <1>2, <3>1, SubSeqProperties
    <3>4. c4' = [c4 EXCEPT !.parts = before \o after]
      BY <1>2, <2>4
    <3> HIDE DEF before, after
    <3>5. PICK parts : parts = before \o after
      OBVIOUS
    <3>6. /\ parts \in Seq(E!Parts) /\ Len(parts) = Len(before) + Len(after)
          /\ \A j \in 1..Len(before) + Len(after) : parts[j] =
                IF j <= Len(before) THEN before[j] ELSE after[j - Len(before)]
      BY <3>2, <3>3, <3>5, ConcatProperties
    <3>7. \A j \in DOMAIN parts : \E k \in DOMAIN c4.parts : parts[j] = c4.parts[k]
      <4> SUFFICES ASSUME NEW j \in DOMAIN parts
                   PROVE  \E k \in DOMAIN c4.parts : parts[j] = c4.parts[k]
        OBVIOUS
      <4>1. j \in 1..Len(c4.parts) - 1 /\ DOMAIN c4.parts = 1..Len(c4.parts)
        BY <1>2, <3>1, <3>2, <3>3, <3>6
      <4>2. CASE j <= i - 1
        <5>1. parts[j] = before[j] /\ before[j] = c4.parts[j]
          BY <3>1, <3>2, <3>3, <3>6, <4>1, <4>2
        <5> QED
          BY <4>1, <5>1
      <4>3. CASE j > i - 1
        <5>1. PICK n \in 1..Len(c4.parts) - i : n = j - (i - 1) /\ i + n = j + 1
          BY <3>1, <4>1, <4>3
        <5>2. parts[j] = after[n]
          <6>1. j \in 1..Len(before) + Len(after) /\ ~(j <= Len(before)) /\ j - Len(before) = n
            BY <3>1, <3>2, <3>3, <4>1, <4>3, <5>1
          <6> QED
            BY <3>6, <6>1
        <5>3. after[n] = c4.parts[j + 1] /\ j + 1 \in DOMAIN c4.parts
          BY <3>1, <3>3, <4>1, <5>1
        <5> QED
          BY <5>2, <5>3
      <4> QED
        BY <3>1, <4>1, <4>2, <4>3
    <3>8. c4' = [c4 EXCEPT !.parts = parts]
      BY <3>4, <3>5
    <3> QED
      BY <3>6, <3>7, <3>8, AnswerWithParts
  <2>5. ASSUME NEW i \in DOMAIN c4.parts, c4.parts[i].rpc = "ours",
               c4' = [c4 EXCEPT !.parts = Append(@, c4.parts[i])]
        PROVE  AnswerPieces(c4')
    <3>1. c4.parts[i] \in E!Parts /\ E!Became(c4.parts[i].body)
      BY <1>2, <1>3, <2>5
    <3>2. c4' = [c4 EXCEPT !.parts = Append(c4.parts, c4.parts[i])]
      BY <1>2, <2>5
    <3> QED
      BY <2>2, <3>1, <3>2
  <2>6. ASSUME NEW i \in DOMAIN c4.parts
        PROVE  c4.parts[i] \in E!Parts /\ c4.parts[i].body \in AnswerBody
    <3>1. c4.parts[i] \in E!Parts
      BY <1>2, <2>6
    <3> QED
      BY <3>1 DEF E!Parts, AnswerBody
  <2>7. ASSUME NEW i \in DOMAIN c4.parts, c4' = [c4 EXCEPT !.parts[i].rejected = TRUE]
        PROVE  AnswerPieces(c4')
    <3>1. PICK piece : piece = [c4.parts[i] EXCEPT !.rejected = TRUE]
      OBVIOUS
    <3>2. /\ piece \in E!Parts /\ piece.rpc = c4.parts[i].rpc /\ piece.body = c4.parts[i].body
      <4>1. PICK old \in E!Parts : old = c4.parts[i]
        BY <2>6, <2>7
      <4> QED
        BY <3>1, <4>1 DEF E!Parts
    <3>3. PICK parts : parts = [c4.parts EXCEPT ![i] = piece]
      OBVIOUS
    <3>4. c4' = [c4 EXCEPT !.parts = parts]
      BY <1>2, <2>7, <3>1, <3>3
    <3>5. /\ parts \in Seq(E!Parts) /\ DOMAIN parts = DOMAIN c4.parts
          /\ \A j \in DOMAIN c4.parts : parts[j] = IF j = i THEN piece ELSE c4.parts[j]
      BY <1>2, <3>2, <3>3, ExceptSeq
    <3>6. \A j \in DOMAIN parts : parts[j].rpc = "ours" => E!Became(parts[j].body)
      BY <1>3, <3>2, <3>5
    <3> QED
      BY <3>4, <3>5, <3>6, AnswerWithParts
  <2>8. ASSUME NEW i \in DOMAIN c4.parts, c4.parts[i].rpc = "ours",
               NEW b \in AnswerBody, E!Became(b), c4' = E!SetBody(i, b)
        PROVE  AnswerPieces(c4')
    <3>1. /\ c4'.status = c4.status /\ c4'.json = c4.json /\ c4'.parts \in Seq(E!Parts)
          /\ \A j \in DOMAIN c4'.parts : c4'.parts[j].rpc = "ours" => E!Became(c4'.parts[j].body)
      BY <2>8, AnswerBreaks DEF E!Matching
    <3>2. PICK parts : c4' = [c4 EXCEPT !.parts = parts]
      BY <1>2, <2>8 DEF E!SetBody
    <3>3. c4'.parts = parts
      BY <1>2, <3>2
    <3> QED
      BY <3>1, <3>2, <3>3, AnswerWithParts
  <2>9. ASSUME NEW i \in DOMAIN c4.parts, c4.parts[i].rpc = "ours",
               \/ \E kind \in {"none", "text", "blank"} : c4' = E!SetBody(i, E!Body(kind, <<>>))
               \/ /\ c4.parts[i].body.kind = "list"
                  /\ c4' = E!SetBody(i, [c4.parts[i].body EXCEPT !.meta = "odd"])
        PROVE  AnswerPieces(c4')
    <3>1. \A kind \in {"none", "text", "blank"} :
             E!Body(kind, <<>>) \in AnswerBody /\ E!Became(E!Body(kind, <<>>))
      BY DEF E!Body, AnswerBody, E!Kinds, E!Literals, E!Became
    <3>2. [c4.parts[i].body EXCEPT !.meta = "odd"] \in AnswerBody
      BY <2>6 DEF AnswerBody
    <3>3. E!Became([c4.parts[i].body EXCEPT !.meta = "odd"])
      BY <1>3, <2>6, <2>9 DEF AnswerBody, E!Became
    <3> QED
      BY <2>8, <2>9, <3>1, <3>2, <3>3
  <2>10. ASSUME NEW i \in DOMAIN c4.parts, c4.parts[i].rpc = "ours",
                NEW r \in DOMAIN c4.parts[i].body.rows,
                \/ \E form \in E!Deformed :
                      c4' = E!SetBody(i, [c4.parts[i].body EXCEPT !.rows[r].form = form])
                \/ c4' = E!SetBody(i, [c4.parts[i].body EXCEPT !.rows[r].id = "unnamed"])
         PROVE  AnswerPieces(c4')
    <3>1. E!Deformed \subseteq {"odd", "scalar", "hollow"}
      BY DEF E!Deformed
    <3> QED
      BY <1>3, <2>8, <2>6, <2>10, <3>1, AnswerRows
  <2> QED
    BY <2>1, <2>3, <2>4, <2>5, <2>7, <2>9, <2>10 DEF E!Deviate
<1>5. E!Typed'
  BY <1>1, <1>2, <1>4 DEF E!Typed, AnswerPieces
<1>6. E!Traceable'
  BY <1>1, <1>4 DEF E!Traceable, E!Matching, E!Became, AnswerPieces
<1>7. E!PostsByPhase' /\ E!ChangesOnce'
  BY <1>1 DEF E!PostsByPhase, E!ChangesOnce, E!Attempts
<1>8. E!EvidenceIsWhole' /\ E!EmptyIsSaid' /\ E!ReadingsAgree'
  <2>1. c7' # "read"
    BY <1>1 DEF E!Deviate
  <2> QED
    BY <1>1, <1>5, <2>1 DEF E!Typed, E!EvidenceIsWhole, E!EmptyIsSaid, E!ReadingsAgree
<1> QED
  BY <1>5, <1>6, <1>7, <1>8

(* What is read out of an answer was in what Gemini composed.               *)
LEMMA AnswerIsRead ==
    ASSUME E!Inv, E!Read
    PROVE  E!Inv'
<1> USE DEF E!Inv
<1>1. /\ UNCHANGED <<c1, c2, c3, c4, c5, c6>> /\ c7 = "arrived" /\ c7' = "read"
      /\ c8' = [outcome |-> E!Outcome, account |-> E!AccountReading,
                notebook |-> E!NotebookReading, scheduled |-> E!ScheduledReading]
  BY DEF E!Read
<1>2. c8'.outcome = E!Outcome /\ c8'.account = E!AccountReading
  BY <1>1
<1>3. E!Typed'
  <2>1. E!AccountReading \in BOOLEAN
    BY DEF E!AccountReading
  <2> QED
    BY <1>1, <1>2, <2>1 DEF E!Typed
<1>4. E!Traceable' /\ E!PostsByPhase' /\ E!ChangesOnce'
  BY <1>1 DEF E!Traceable, E!Matching, E!Became, E!PostsByPhase, E!ChangesOnce, E!Attempts
<1>5. E!ReadingsAgree'
  BY <1>1 DEF E!ReadingsAgree, E!AccountReading, E!NotebookReading, E!ScheduledReading,
    E!Evident, E!SingleBody
<1>6. ASSUME E!AccountReading
      PROVE  /\ E!Received \in AnswerBody /\ E!Became(E!Received) /\ E!Received.kind # "none"
             /\ E!Outcome = E!Parse(E!Received)
  <2>1. c4.json /\ ~E!Rejected /\ E!SingleBody
    BY <1>6 DEF E!AccountReading, E!Evident
  <2> DEFINE i == CHOOSE i \in E!Bodies : TRUE
  <2>2. i \in E!Bodies
    BY <2>1 DEF E!SingleBody
  <2>3. E!Received = c4.parts[i].body /\ E!Outcome = E!Parse(E!Received)
    BY <2>1 DEF E!Outcome, E!Received
  <2> HIDE DEF i
  <2>4. i \in E!Matching /\ c4.parts[i].body.kind # "none"
    BY <2>2 DEF E!Bodies
  <2>5. c4.parts[i] \in E!Parts
    BY <2>4 DEF E!Typed, E!Matching
  <2> QED
    BY <2>3, <2>4, <2>5 DEF E!Parts, AnswerBody, E!Traceable
<1>7. ASSUME E!AccountReading
      PROVE  /\ AnswerQuiet(E!Outcome) \/ AnswerBlank(E!Received) \/ AnswerHollow(E!Received)
             /\ c1.parser \in E!ByPath => AnswerTaken(E!Outcome, E!Received)
             /\ E!Listing => AnswerWhole(E!Outcome)
             /\ E!Nameless => AnswerCounted(E!Outcome)
             /\ E!ByIdentity => AnswerAsked(E!Outcome)
  BY <1>6, <1>7, AnswerLists DEF E!Typed
<1>8. E!EvidenceIsWhole' /\ E!EmptyIsSaid'
  <2>1. /\ E!Listing' = E!Listing /\ E!Nameless' = E!Nameless /\ E!ByIdentity' = E!ByIdentity
    BY <1>1 DEF E!Listing, E!Nameless, E!ByIdentity
  <2>2. E!Received' = E!Received
    BY <1>1 DEF E!Received, E!Bodies, E!Matching
  <2>3. CASE E!AccountReading
    <3>1. E!EvidenceIsWhole'
      BY <1>1, <1>2, <1>7, <2>1, <2>2, <2>3 DEF E!EvidenceIsWhole, E!TakenByPath, AnswerTaken,
        AnswerWhole, AnswerCounted, AnswerAsked
    <3>2. E!EmptyIsSaid'
      BY <1>1, <1>2, <1>7, <2>2, <2>3 DEF E!EmptyIsSaid, E!Blank, E!AllHollow, AnswerQuiet,
        AnswerBlank, AnswerHollow
    <3> QED
      BY <3>1, <3>2
  <2>4. CASE ~E!AccountReading
    BY <1>2, <2>4 DEF E!EvidenceIsWhole, E!EmptyIsSaid
  <2> QED
    BY <2>3, <2>4
<1> QED
  BY <1>3, <1>4, <1>5, <1>8

LEMMA AnswerStep ==
    ASSUME E!Inv, [E!Next]_(E!evars)
    PROVE  E!Inv'
<1>1. CASE UNCHANGED E!evars
  <2>1. UNCHANGED <<c1, c2, c3, c4, c5, c6, c7, c8>>
    BY <1>1 DEF E!evars
  <2>2. E!Typed' /\ E!Traceable'
    BY <2>1 DEF E!Inv, E!Typed, E!Traceable, E!Matching, E!Became
  <2>3. E!PostsByPhase' /\ E!ChangesOnce'
    BY <2>1 DEF E!Inv, E!PostsByPhase, E!ChangesOnce, E!Attempts
  <2>4. E!EvidenceIsWhole' /\ E!EmptyIsSaid' /\ E!ReadingsAgree'
    BY <2>1 DEF E!Inv, E!EvidenceIsWhole, E!EmptyIsSaid, E!ReadingsAgree, E!Listing,
      E!Nameless, E!ByIdentity, E!TakenByPath, E!Blank, E!AllHollow, E!Received, E!Bodies,
      E!Matching
  <2> QED
    BY <2>2, <2>3, <2>4 DEF E!Inv
<1>2. CASE E!Next
  BY <1>2, AnswerPosts, AnswerDeviates, AnswerIsRead DEF E!Next
<1> QED
  BY <1>1, <1>2

(* In every behaviour of a call to a web RPC, whatever Gemini may list and  *)
(* however often the answer deviates from what was composed: an accepted    *)
(* listing is all of it and nothing else, or of a chat's turns what had its *)
(* content; an accepted record is the one asked for; an absence was said,   *)
(* or read out of an empty string where no shape is known or out of turns   *)
(* none of which had content; the three readings agree, and the request of  *)
(* any mutation contract goes out once                                      *)
(* (rpc_parsers.py:394, 972, 997, 1155, rpc_contracts.py:931, account.py:24). *)
THEOREM AnswersAreTrue == Spec => []AnswersAreEvidence
<1>1. Init => AnswerPart
  BY AnswerInit DEF Init, AnswerPart
<1>2. AnswerPart /\ [Next]_vars => AnswerPart'
  <2> SUFFICES ASSUME AnswerPart, [Next]_vars, part' = "answer"
               PROVE  E!Inv'
    BY DEF AnswerPart
  <2>1. part = "answer" /\ [E!Next]_(E!evars)
    BY DEF Next, vars, cells, E!evars
  <2> QED
    BY <2>1, AnswerStep DEF AnswerPart
<1>3. AnswerPart => AnswersAreEvidence
  BY DEF AnswerPart, AnswersAreEvidence, E!Inv
<1> QED
  BY <1>1, <1>2, <1>3, PTL DEF Spec

-----------------------------------------------------------------------------
(* The credentials                                                         *)

KP == INSTANCE CredentialsProofs WITH
    published <- c1, env <- c2, client <- c3, scope <- c4, sessions <- c5, updating <- c6,
    auth <- c7, making <- c8, pc <- c9, mine <- c10, failed <- c11

LEMMA CredentialsDistinct == KP!Distinct
<1>1. KP!IsFiniteSet(Accounts)
  BY ValuesAssumption DEF IsFiniteSet, KP!IsFiniteSet
<1>2. None \notin KP!Cookies \cup KP!Pairs
  BY ValuesAssumption DEF KP!Cookies, KP!Pairs
<1> QED
  BY <1>1, <1>2, ValuesAssumption DEF KP!Distinct, KP!Threads

LEMMA CredentialsInit == K!Init <=> KP!Init
BY DEF K!Init, KP!Init, K!Cookie, KP!Cookie, K!Threads, KP!Threads

LEMMA ProfilesChosen ==
    \A candidates, profile, signedIn, scheduled, inTime :
        /\ K!Chosen(candidates, profile, signedIn, scheduled, inTime)
             = KP!Chosen(candidates, profile, signedIn, scheduled, inTime)
        /\ K!Valid(candidates, profile, signedIn, inTime)
             = KP!Valid(candidates, profile, signedIn, inTime)
<1>1. \A candidates, wanted : K!First(candidates, wanted) = KP!First(candidates, wanted)
  BY DEF K!First, KP!First
<1>2. \A candidates, signedIn, scheduled :
        K!Validated(candidates, signedIn, scheduled) = KP!Validated(candidates, signedIn, scheduled)
  BY <1>1 DEF K!Validated, KP!Validated
<1>3. \A candidates, profile, signedIn, scheduled, inTime :
        K!Chosen(candidates, profile, signedIn, scheduled, inTime)
          = KP!Chosen(candidates, profile, signedIn, scheduled, inTime)
  BY <1>1, <1>2 DEF K!Chosen, KP!Chosen
<1>4. \A candidates, profile, signedIn, inTime :
        K!Valid(candidates, profile, signedIn, inTime) = KP!Valid(candidates, profile, signedIn, inTime)
  BY DEF K!Valid, KP!Valid, K!Range, KP!Range
<1> QED
  BY <1>3, <1>4

LEMMA CredentialsNext == K!Next <=> KP!Next
<1>1. \A u : K!Browser(u) <=> KP!Browser(u)
  <2>1. K!Injection(1..K!Cardinality(Accounts), Accounts)
          = KP!Injection(1..KP!Cardinality(Accounts), Accounts)
    <3>1. K!Cardinality(Accounts) = KP!Cardinality(Accounts)
      BY DEF K!Cardinality, KP!Cardinality
    <3> QED
      BY <3>1 DEF K!Injection, KP!Injection, K!IsInjective, KP!IsInjective
  <2>2. \A acct, ver : K!Cookie(acct, ver) = KP!Cookie(acct, ver)
    BY DEF K!Cookie, KP!Cookie
  <2> SUFFICES ASSUME NEW u  PROVE K!Browser(u) <=> KP!Browser(u)
    OBVIOUS
  <2> DEFINE Takes(chosen, valid) ==
        \/ chosen = {} /\ c9' = [c9 EXCEPT ![u] = "done"] /\ UNCHANGED c10
        \/ \E acct \in chosen :
             /\ c10' = [c10 EXCEPT ![u].sid = K!Cookie(acct, 1), ![u].valid = valid]
             /\ c9' = [c9 EXCEPT ![u] = "publish"]
      TakesP(chosen, valid) ==
        \/ chosen = {} /\ c9' = [c9 EXCEPT ![u] = "done"] /\ UNCHANGED c10
        \/ \E acct \in chosen :
             /\ c10' = [c10 EXCEPT ![u].sid = KP!Cookie(acct, 1), ![u].valid = valid]
             /\ c9' = [c9 EXCEPT ![u] = "publish"]
      Seqs == {<<>>} \cup {<<a>> : a \in Accounts}
                \cup K!Injection(1..K!Cardinality(Accounts), Accounts)
      SeqsP == {<<>>} \cup {<<a>> : a \in Accounts}
                 \cup KP!Injection(1..KP!Cardinality(Accounts), Accounts)
      Rest == c9[u] = "read" /\ UNCHANGED <<c1, c2, c3, c4, c5, c6, c7, c8, c11>>
  <2>3. K!Browser(u) <=> Rest /\
          \E candidates \in Seqs, profile \in Accounts \cup {None},
             signedIn, scheduled \in SUBSET Accounts, inTime \in BOOLEAN :
            Takes(K!Chosen(candidates, profile, signedIn, scheduled, inTime),
                  K!Valid(candidates, profile, signedIn, inTime))
    BY DEF K!Browser
  <2>4. KP!Browser(u) <=> Rest /\
          \E candidates \in SeqsP, profile \in Accounts \cup {None},
             signedIn, scheduled \in SUBSET Accounts, inTime \in BOOLEAN :
            TakesP(KP!Chosen(candidates, profile, signedIn, scheduled, inTime),
                   KP!Valid(candidates, profile, signedIn, inTime))
    BY DEF KP!Browser
  <2>5. \A chosen, valid : Takes(chosen, valid) <=> TakesP(chosen, valid)
    BY <2>2
  <2>6. Seqs = SeqsP
    BY <2>1
  <2> HIDE DEF Takes, TakesP, Seqs, SeqsP, Rest
  <2> QED
    BY <2>3, <2>4, <2>5, <2>6, ProfilesChosen
<1>2. \A u : K!Publish(u) <=> KP!Publish(u)
  BY DEF K!Publish, KP!Publish, K!Free, KP!Free
<1>3. \A u : K!Compare(u) <=> KP!Compare(u)
  BY DEF K!Compare, KP!Compare, K!Matches, KP!Matches, K!Identity, KP!Identity, K!Free, KP!Free
<1>4. \A u : /\ K!SwapIdentity(u) <=> KP!SwapIdentity(u)
             /\ K!SwapToken(u) <=> KP!SwapToken(u)
             /\ K!Reset(u) <=> KP!Reset(u)
  BY DEF K!SwapIdentity, KP!SwapIdentity, K!SwapToken, KP!SwapToken, K!Reset, KP!Reset,
    K!Free, KP!Free
<1>5. \A q : K!Get(q) <=> KP!Get(q)
  BY DEF K!Get, KP!Get, K!Free, KP!Free
<1>6. \A q : K!Initialize(q) <=> KP!Initialize(q)
  BY DEF K!Initialize, KP!Initialize, K!Free, KP!Free
<1>7. \A q : K!Make(q) <=> KP!Make(q)
  BY DEF K!Make, KP!Make
<1>8. \A q : K!MakeToken(q) <=> KP!MakeToken(q)
  BY DEF K!MakeToken, KP!MakeToken
<1>9. \A q : K!MakeRest(q) <=> KP!MakeRest(q)
  BY DEF K!MakeRest, KP!MakeRest, K!Extra, KP!Extra, K!Holds, KP!Holds
<1>10. \A q : K!Bind(q) <=> KP!Bind(q)
  BY DEF K!Bind, KP!Bind
<1>11. \A q : K!Store(q) <=> KP!Store(q)
  BY DEF K!Store, KP!Store, K!Free, KP!Free, K!SameGeneration, KP!SameGeneration
<1> QED
  BY <1>1, <1>2, <1>3, <1>4, <1>5, <1>6, <1>7, <1>8, <1>9, <1>10, <1>11 DEF K!Next, KP!Next

CredentialsPart == part = "credentials" => KP!CredentialsInv

(* In every behaviour of the calls no client or session has anything of    *)
(* two accounts, all follow the published cookies, and a profile asked for *)
(* is respected (client_wrapper.py:487, cookie_manager.py:443).            *)
THEOREM CredentialsAreKept == Spec => []CredentialsStayTogether
<1>1. Init => CredentialsPart
  <2>1. KP!Init => KP!CredentialsInv
    BY CredentialsDistinct, KP!CredentialsInit
  <2> QED
    BY <2>1, CredentialsInit DEF Init, CredentialsPart
<1>2. CredentialsPart /\ [Next]_vars => CredentialsPart'
  <2> SUFFICES ASSUME CredentialsPart, [Next]_vars, part' = "credentials"
               PROVE  KP!CredentialsInv'
    BY DEF CredentialsPart
  <2>1. part = "credentials" /\ [K!Next]_(K!kvars)
    BY DEF Next, vars, cells, K!kvars
  <2>2. [KP!Next]_(KP!kvars)
    BY <2>1, CredentialsNext DEF K!kvars, KP!kvars
  <2>3. KP!CredentialsInv
    BY <2>1 DEF CredentialsPart
  <2> QED
    BY <2>2, <2>3, CredentialsDistinct, KP!CredentialsStep
<1>3. CredentialsPart => CredentialsStayTogether
  <2>1. KP!CredentialsInv => KP!NothingMixed /\ KP!AllFollow /\ KP!ProfileIsRespected
    BY CredentialsDistinct, KP!CredentialsKept
  <2> QED
    BY <2>1 DEF CredentialsPart, CredentialsStayTogether, K!NothingMixed, KP!NothingMixed,
      K!AllFollow, KP!AllFollow, K!ProfileIsRespected, KP!ProfileIsRespected
<1> QED
  BY <1>1, <1>2, <1>3, PTL DEF Spec

=============================================================================
