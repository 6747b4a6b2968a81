----------------------------- MODULE MediaFiles -----------------------------
(***************************************************************************)
(* The file names of downloaded media (services/media_generation.py).      *)
(* Tasks of one or several processes that want the same name in the same   *)
(* directory each claim a candidate by creating it exclusively; the        *)
(* download is written into the claimed file, an unfinished one is         *)
(* removed, and an image whose bytes are of another type is moved to a     *)
(* claimed name with the right suffix.  A file is its writer's identity    *)
(* and what is in it.                                                      *)
(***************************************************************************)
EXTENDS Naturals, FiniteSets

CONSTANTS Tasks, MaxIndex   \* MaxIndex bounds the candidates name, name_2, ...

VARIABLES
    dir,     \* [names -> file], a file being [by, content]
    at,      \* where each task is
    index,   \* the candidate it tries next
    claim,   \* the name it has claimed
    kept     \* the path its save returned

fvars == <<dir, at, index, claim, kept>>

Names == [index: 1..MaxIndex, suffix: {"asked", "actual"}]
NoName == [index |-> 0, suffix |-> "asked"]
NoFile == [by |-> "nobody", content |-> "none"]
Name(i, s) == [index |-> i, suffix |-> s]
Free(n) == dir[n] = NoFile

Init ==
    /\ dir = [n \in Names |-> NoFile]
    /\ at = [t \in Tasks |-> "reserve"]
    /\ index = [t \in Tasks |-> 1]
    /\ claim = [t \in Tasks |-> NoName]
    /\ kept = [t \in Tasks |-> NoName]

Go(t, place) == at' = [at EXCEPT ![t] = place]
Suffix(t) == IF at[t] = "reserve" THEN "asked" ELSE "actual"
Candidate(t) == Name(index[t], Suffix(t))

(* mutant: a name found free is taken, whoever created it meanwhile *)
TakenNever(n) == FALSE
Taken(n) == ~Free(n)

(* _reserve_media_filename: the next candidate, created exclusively. *)
Reserve(t) ==
    /\ at[t] \in {"reserve", "realign"}
    /\ IF Taken(Candidate(t))
       THEN /\ index[t] < MaxIndex /\ index' = [index EXCEPT ![t] = @ + 1]
            /\ UNCHANGED <<dir, claim, at>>
       ELSE /\ dir' = [dir EXCEPT ![Candidate(t)] = [by |-> t, content |-> "empty"]]
            /\ claim' = [claim EXCEPT ![t] = Candidate(t)]
            /\ Go(t, IF at[t] = "reserve" THEN "save" ELSE "rename")
            /\ UNCHANGED index
    /\ UNCHANGED kept

Mine(t) == dir[claim[t]].by = t

(* The SDK writes into the file that has the claimed name, and returns it; *)
(* or it fails before or half-way through.                                 *)
Save(t) ==
    /\ at[t] = "save"
    /\ \E content \in {"empty", "partial", "media"} :
          /\ dir' = [dir EXCEPT ![claim[t]] = [@ EXCEPT !.content = content]]
          /\ \/ content = "media" /\ kept' = [kept EXCEPT ![t] = claim[t]]
             \/ UNCHANGED kept
    /\ Go(t, "release")
    /\ UNCHANGED <<index, claim>>

Unwanted(t) == kept[t] # claim[t] \/ dir[claim[t]].content = "empty"

(* _FilenameReservation.release: only the reservation's own file. *)
Release(t) ==
    /\ at[t] = "release"
    /\ dir' = IF Mine(t) /\ Unwanted(t) THEN [dir EXCEPT ![claim[t]] = NoFile] ELSE dir
    /\ \/ Go(t, "ended") /\ UNCHANGED index
       \/ /\ kept[t] # NoName
          /\ Go(t, "realign") /\ index' = [index EXCEPT ![t] = 1]
    /\ UNCHANGED <<claim, kept>>

(* normalize_saved_image_extension: the file moves over the reservation,   *)
(* or stays where it is and the reservation is released.                   *)
Rename(t) ==
    /\ at[t] = "rename"
    /\ \/ /\ dir' = [dir EXCEPT ![claim[t]] = dir[kept[t]], ![kept[t]] = NoFile]
          /\ kept' = [kept EXCEPT ![t] = claim[t]]
       \/ /\ dir' = IF Mine(t) THEN [dir EXCEPT ![claim[t]] = NoFile] ELSE dir
          /\ UNCHANGED kept
    /\ Go(t, "ended")
    /\ UNCHANGED <<index, claim>>

Next == \E t \in Tasks : Reserve(t) \/ Save(t) \/ Release(t) \/ Rename(t)

Spec == Init /\ [][Next]_fvars

-----------------------------------------------------------------------------
(* What a finished task returned is its own download, still there: no      *)
(* other task has overwritten, moved or removed it.                        *)
ReturnedIsThere ==
    \A t \in Tasks : at[t] = "ended" /\ kept[t] # NoName =>
        dir[kept[t]] = [by |-> t, content |-> "media"]

(* Finished tasks leave neither empty reservations nor partial downloads   *)
(* behind.                                                                 *)
NothingLeftBehind ==
    \A n \in Names : dir[n] # NoFile /\ at[dir[n].by] = "ended" => kept[dir[n].by] = n

-----------------------------------------------------------------------------
(* The inductive invariant of the safety properties *)

Files == [by : Tasks, content : {"empty", "partial", "media"}]
Places == {"reserve", "save", "release", "realign", "rename", "ended"}

Typed ==
    /\ dir \in [Names -> Files \cup {NoFile}]
    /\ at \in [Tasks -> Places]
    /\ index \in [Tasks -> 1..MaxIndex]
    /\ claim \in [Tasks -> Names \cup {NoName}]
    /\ kept \in [Tasks -> Names \cup {NoName}]

\* The names in the directory whose file was written for a task.
Owned(t) == {n \in Names : dir[n] \in Files /\ dir[n].by = t}

\* What a task owns, by where it is: nothing, its reservation, its download,
\* or, while the suffix is corrected, both.
Accounted(t) ==
    /\ at[t] = "reserve" => kept[t] = NoName /\ Owned(t) = {}
    /\ at[t] = "save" => kept[t] = NoName /\ Owned(t) = {claim[t]}
    /\ at[t] = "release" => /\ kept[t] \in {NoName, claim[t]} /\ Owned(t) = {claim[t]}
                            /\ kept[t] = claim[t] => dir[claim[t]].content = "media"
    /\ at[t] = "realign" => Owned(t) = {kept[t]} /\ dir[kept[t]].content = "media"
    /\ at[t] = "rename" => /\ Owned(t) = {claim[t], kept[t]} /\ claim[t] # kept[t]
                           /\ dir[kept[t]].content = "media"
    /\ at[t] = "ended" =>
         IF kept[t] = NoName THEN Owned(t) = {}
         ELSE Owned(t) = {kept[t]} /\ dir[kept[t]].content = "media"

Inv == Typed /\ \A t \in Tasks : Accounted(t)
=============================================================================
