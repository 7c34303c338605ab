---------------------------- MODULE ProfileAvatar ----------------------------
(***************************************************************************)
(* The image of a profile update (updateUser in auth.service.ts): a file   *)
(* in the avatar folder under a fresh name, the row that names it, and the *)
(* deletion of the file that the row named before, or of the new file when *)
(* the row could not be saved.                                             *)
(*                                                                         *)
(* Updates of one account run concurrently.  Each is one action per        *)
(* section between two awaits; one that stops at an await (a crash) is one *)
(* whose next action never happens.                                        *)
(***************************************************************************)

CONSTANTS
    User,
    Update,  \* PATCH /auth/update requests that carry an image
    None     \* no avatar, or no value

ASSUME NoneAssumption == None \notin Update \cup User

\* A file is named by the request that made it (a fresh UUID).
VARIABLES
    exists,  \* the accounts that have a row
    avatar,  \* the avatar column
    folder,  \* the files in the avatar folder
    update   \* the requests

vars == <<exists, avatar, folder, update>>

\* "old" is current.avatar as it was read.  The rest is history: what the
\* column held when the row was written, that the answer to that write was
\* lost, that a deletion failed.
UpdateState ==
    [pc : {"idle", "put", "check", "save", "cleanupOld", "cleanupNew", "saved", "failed"},
     user : User \cup {None}, old : Update \cup {None}, replaced : Update \cup {None},
     unanswered : BOOLEAN, kept : BOOLEAN]

\* Every variable holds a value of its kind.
TypeOK ==
    /\ exists \subseteq User
    /\ avatar \in [User -> Update \cup {None}]
    /\ folder \subseteq Update
    /\ update \in [Update -> UpdateState]

Init ==
    /\ exists = User
    /\ avatar = [u \in User |-> None]
    /\ folder = {}
    /\ update = [w \in Update |-> [pc |-> "idle", user |-> None, old |-> None,
                                   replaced |-> None, unanswered |-> FALSE,
                                   kept |-> FALSE]]

\* findFirst(current).
Read(w, u) ==
    /\ update[w].pc = "idle"
    /\ u \in exists
    /\ update' = [update EXCEPT ![w] =
           [@ EXCEPT !.pc = "put", !.user = u, !.old = avatar[u]]]
    /\ UNCHANGED <<exists, avatar, folder>>

\* SojebStorage.put; the local adapter swallows its errors.
Put(w) ==
    /\ update[w].pc = "put"
    /\ folder' \in {folder, folder \cup {w}}
    /\ update' = [update EXCEPT ![w].pc = "check"]
    /\ UNCHANGED <<exists, avatar>>

\* Variant: the upload is not looked for.
CheckNothing(w) ==
    /\ update[w].pc = "check"
    /\ update' = [update EXCEPT ![w].pc = "save"]
    /\ UNCHANGED <<exists, avatar, folder>>

\* SojebStorage.isExists: the file is there, or the catch block is next.
CheckFile(w) ==
    /\ update[w].pc = "check"
    /\ update' = [update EXCEPT ![w].pc = IF w \in folder THEN "save" ELSE "cleanupNew"]
    /\ UNCHANGED <<exists, avatar, folder>>

\* The try block rejects before the row is written: no disk, no row (P2025), a
\* taken address or number (P2002), no connection.
Reject(w) ==
    /\ update[w].pc \in {"put", "check", "save"}
    /\ update' = [update EXCEPT ![w].pc = "cleanupNew"]
    /\ UNCHANGED <<exists, avatar, folder>>

\* user.update writes the row.
Save(w) ==
    LET u == update[w].user
    IN  /\ update[w].pc = "save"
        /\ u \in exists
        /\ avatar' = [avatar EXCEPT ![u] = w]
        /\ update' = [update EXCEPT ![w] =
               [@ EXCEPT !.pc = IF update[w].old = None THEN "saved" ELSE "cleanupOld",
                         !.replaced = avatar[u]]]
        /\ UNCHANGED <<exists, folder>>

\* The row is written, and the connection drops before the answer arrives.
SaveUnanswered(w) ==
    LET u == update[w].user
    IN  /\ update[w].pc = "save"
        /\ u \in exists
        /\ avatar' = [avatar EXCEPT ![u] = w]
        /\ update' = [update EXCEPT ![w] =
               [@ EXCEPT !.pc = "cleanupNew", !.replaced = avatar[u], !.unanswered = TRUE]]
        /\ UNCHANGED <<exists, folder>>

\* cleanup(current.avatar); a failure is only logged.
CleanupOld(w) ==
    /\ update[w].pc = "cleanupOld"
    /\ \E deleted \in BOOLEAN :
         /\ folder' = IF deleted THEN folder \ {update[w].old} ELSE folder
         /\ update' = [update EXCEPT ![w] = [@ EXCEPT !.pc = "saved", !.kept = ~deleted]]
    /\ UNCHANGED <<exists, avatar>>

\* Variant: a failed save leaves the upload.
CleanupNothing(w) ==
    /\ update[w].pc = "cleanupNew"
    /\ update' = [update EXCEPT ![w].pc = "failed"]
    /\ UNCHANGED <<exists, avatar, folder>>

\* cleanup(newImage) in the catch block.
CleanupNew(w) ==
    /\ update[w].pc = "cleanupNew"
    /\ \E deleted \in BOOLEAN :
         /\ folder' = IF deleted THEN folder \ {w} ELSE folder
         /\ update' = [update EXCEPT ![w] = [@ EXCEPT !.pc = "failed", !.kept = ~deleted]]
    /\ UNCHANGED <<exists, avatar>>

\* The admin's DELETE leaves the file.
RemoveUser(u) ==
    /\ u \in exists
    /\ exists' = exists \ {u}
    /\ UNCHANGED <<avatar, folder, update>>

UpdateNext(w) ==
    \/ \E u \in User : Read(w, u)
    \/ Put(w) \/ CheckFile(w) \/ Reject(w) \/ Save(w) \/ SaveUnanswered(w)
    \/ CleanupOld(w) \/ CleanupNew(w)

Next ==
    \/ \E w \in Update : UpdateNext(w)
    \/ \E u \in User : RemoveUser(u)

Spec == Init /\ [][Next]_vars

------------------------------------------------------------------------------
(* Properties *)

\* The avatar a row names is in the folder, however the updates of an account
\* interleave: a request deletes what it read as the old one only after the row
\* has moved on for good.  The one exception is a write whose answer was lost:
\* the handler takes it for failed and deletes the file the row now names.
AvatarIsStored ==
    \A u \in exists :
        avatar[u] # None /\ ~update[avatar[u]].unanswered => avatar[u] \in folder

\* A file that no row names is on its way in or out, or it is one of the leaks
\* the code accepts: a deletion failed, the account is gone, or the request that
\* replaced the file had read another one as the old one, or had no answer.
OrphansAreExplained ==
    \A n \in folder :
        \/ \E u \in exists : avatar[u] = n
        \/ update[n].pc \in {"check", "save", "cleanupNew"}
        \/ update[n].kept
        \/ update[n].user \notin exists
        \/ \E w \in Update :
             /\ update[w].replaced = n
             /\ \/ update[w].pc = "cleanupOld"
                \/ update[w].kept
                \/ update[w].old # n
                \/ update[w].unanswered

==============================================================================
