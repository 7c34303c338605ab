------------------------- MODULE ProfileAvatarProofs -------------------------
(* The avatar a row names is in the folder, for any accounts and requests. *)
EXTENDS ProfileAvatar, TLAPS

Written(w) == update[w].pc \in {"cleanupOld", "saved"} \/ update[w].unanswered

\* What a request that is under way has read.
Locals ==
    \A w \in Update :
        /\ update[w].pc # "idle" => update[w].user \in User
        /\ update[w].pc = "cleanupOld" => update[w].old \in Update

\* A row names a request of its account that has written it.
NamesWriter ==
    \A u \in User : avatar[u] # None => Written(avatar[u]) /\ update[avatar[u]].user = u

\* A request writes at most once, and only a file it has seen.
WritesOnce ==
    \A w \in Update :
        update[w].pc = "save" => ~Written(w) /\ w \in folder

\* What a request read as the old avatar was written before, and once the
\* request has written itself no row names it any more.
OldIsPast ==
    \A w \in Update :
        /\ update[w].old # None =>
             /\ Written(update[w].old)
             /\ update[update[w].old].user = update[w].user
        /\ Written(w) => \A u \in User : update[w].old # None => avatar[u] # update[w].old

\* An answer is lost only after the write.
Unfinished ==
    \A w \in Update :
        update[w].pc \in {"idle", "put", "check", "save"} => ~update[w].unanswered

Stored ==
    \A u \in User :
        avatar[u] # None /\ ~update[avatar[u]].unanswered => avatar[u] \in folder

Inv == TypeOK /\ Locals /\ NamesWriter /\ WritesOnce /\ OldIsPast /\ Unfinished /\ Stored

\* The inductive invariant: a row names a request that has written it, and what a
\* request read as the old avatar was written by another one before.
THEOREM AvatarInvariant == Spec => []Inv
<1>1. Init => Inv
  BY NoneAssumption DEF Init, Inv, TypeOK, UpdateState, Locals, NamesWriter, WritesOnce,
       OldIsPast, Unfinished, Stored, Written
<1>2. Inv /\ [Next]_vars => Inv'
  <2> SUFFICES ASSUME Inv, [Next]_vars PROVE Inv'
    OBVIOUS
  <2> USE DEF Inv
  <2>0. /\ \A w \in Update : update[w] \in UpdateState
        /\ \A u \in User : avatar[u] \in Update \cup {None}
        /\ None \notin Update
    BY NoneAssumption DEF TypeOK
  <2>1. ASSUME NEW w \in Update, NEW u \in User, Read(w, u) PROVE Inv'
    <3>1. update' = [update EXCEPT ![w] =
             [update[w] EXCEPT !.pc = "put", !.user = u, !.old = avatar[u]]]
      BY <2>1 DEF Read
    <3>a. [update[w] EXCEPT !.pc = "put", !.user = u, !.old = avatar[u]] \in UpdateState
      BY <2>0 DEF UpdateState
    <3>2. TypeOK'
      BY <2>1, <3>1, <3>a DEF Read, TypeOK
    <3>3. /\ update'[w].pc = "put" /\ update'[w].user = u /\ update'[w].old = avatar[u]
          /\ update'[w].unanswered = update[w].unanswered
          /\ \A v \in Update \ {w} : update'[v] = update[v]
          /\ update[w].pc = "idle" /\ ~update[w].unanswered
          /\ avatar' = avatar /\ folder' = folder
      BY <2>0, <2>1, <3>1 DEF Read, TypeOK, UpdateState, Unfinished
    <3>4. ~Written(w) /\ \A v \in Update \ {w} : Written(v) <=> Written(v)'
      BY <3>3 DEF Written
    <3>5. \A v \in Update : update[v].old # w
      BY <2>0, <3>4 DEF OldIsPast
    <3>6. \A t \in User : avatar[t] # w
      BY <2>0, <3>4 DEF NamesWriter
    <3>7. ~Written(w)'
      BY <3>3 DEF Written
    <3>8. Locals' /\ Unfinished'
      BY <3>3 DEF Locals, Unfinished
    <3>9. NamesWriter' /\ Stored'
      BY <2>0, <3>3, <3>4, <3>6 DEF NamesWriter, Stored
    <3>10. WritesOnce'
      BY <3>3, <3>4 DEF WritesOnce
    <3>11. OldIsPast'
      <4>1. ASSUME NEW v \in Update \ {w}
            PROVE  /\ update'[v].old # None =>
                        Written(update[v].old)' /\ update'[update'[v].old].user = update'[v].user
                   /\ Written(v)' => \A t \in User : update'[v].old # None => avatar'[t] # update'[v].old
        BY <2>0, <3>3, <3>4, <3>5 DEF OldIsPast, UpdateState
      <4>2. update'[w].old # None => Written(avatar[u]) /\ update[avatar[u]].user = u /\ avatar[u] # w
        BY <2>1, <3>3, <3>6 DEF NamesWriter
      <4>3. QED
        BY <2>0, <3>3, <3>4, <3>7, <4>1, <4>2 DEF OldIsPast
    <3>12. QED BY <3>2, <3>8, <3>9, <3>10, <3>11
  <2>2. ASSUME avatar' = avatar,
               \A v \in Update :
                  /\ update'[v].user = update[v].user /\ update'[v].old = update[v].old
                  /\ update'[v].unanswered = update[v].unanswered
                  /\ Written(v)' <=> Written(v)
        PROVE  NamesWriter' /\ OldIsPast'
    <3>1. NamesWriter'
      BY <2>0, <2>2 DEF NamesWriter
    <3>2. \A v \in Update : update[v].old \in Update \cup {None}
      BY <2>0 DEF UpdateState
    <3>3. OldIsPast'
      BY <2>2, <3>2 DEF OldIsPast
    <3>4. QED BY <3>1, <3>3
  <2>3. ASSUME NEW w \in Update,
               Put(w) \/ CheckFile(w) \/ Reject(w) \/ CleanupOld(w) \/ CleanupNew(w)
        PROVE  /\ avatar' = avatar /\ exists' = exists
               /\ \A v \in Update \ {w} : update'[v] = update[v]
               /\ update'[w] \in UpdateState
               /\ update' \in [Update -> UpdateState]
               /\ update'[w].user = update[w].user /\ update'[w].old = update[w].old
               /\ update'[w].unanswered = update[w].unanswered
    <3>1. CASE Put(w)
      <4>1. update' = [update EXCEPT ![w] = [update[w] EXCEPT !.pc = "check"]]
        BY <3>1 DEF Put
      <4>2. QED BY <2>0, <3>1, <4>1 DEF Put, TypeOK, UpdateState
    <3>2. CASE CheckFile(w)
      <4>1. PICK p \in {"save", "cleanupNew"} :
               update' = [update EXCEPT ![w] = [update[w] EXCEPT !.pc = p]]
        BY <3>2 DEF CheckFile
      <4>2. QED BY <2>0, <3>2, <4>1 DEF CheckFile, TypeOK, UpdateState
    <3>3. CASE Reject(w)
      <4>1. update' = [update EXCEPT ![w] = [update[w] EXCEPT !.pc = "cleanupNew"]]
        BY <3>3 DEF Reject
      <4>2. QED BY <2>0, <3>3, <4>1 DEF Reject, TypeOK, UpdateState
    <3>4. CASE CleanupOld(w)
      <4>1. PICK deleted \in BOOLEAN :
               update' = [update EXCEPT ![w] =
                   [update[w] EXCEPT !.pc = "saved", !.kept = ~deleted]]
        BY <3>4 DEF CleanupOld
      <4>2. PICK k \in BOOLEAN :
               update' = [update EXCEPT ![w] = [update[w] EXCEPT !.pc = "saved", !.kept = k]]
        BY <4>1
      <4>3. [update[w] EXCEPT !.pc = "saved", !.kept = k] \in UpdateState
        BY <2>0 DEF UpdateState
      <4>4. QED BY <2>0, <3>4, <4>2, <4>3 DEF CleanupOld, TypeOK, UpdateState
    <3>5. CASE CleanupNew(w)
      <4>1. PICK deleted \in BOOLEAN :
               update' = [update EXCEPT ![w] =
                   [update[w] EXCEPT !.pc = "failed", !.kept = ~deleted]]
        BY <3>5 DEF CleanupNew
      <4>2. PICK k \in BOOLEAN :
               update' = [update EXCEPT ![w] = [update[w] EXCEPT !.pc = "failed", !.kept = k]]
        BY <4>1
      <4>3. [update[w] EXCEPT !.pc = "failed", !.kept = k] \in UpdateState
        BY <2>0 DEF UpdateState
      <4>4. QED BY <2>0, <3>5, <4>2, <4>3 DEF CleanupNew, TypeOK, UpdateState
    <3>6. QED BY <2>3, <3>1, <3>2, <3>3, <3>4, <3>5
  <2>4. ASSUME NEW w \in Update, Put(w) \/ CheckFile(w) \/ Reject(w) PROVE Inv'
    <3>1. /\ update[w].pc \in {"put", "check", "save"}
          /\ update'[w].pc \in {"check", "save", "cleanupNew"}
          /\ update'[w].pc = "save" => w \in folder'
          /\ folder \subseteq folder' /\ folder' \subseteq Update
      <4>1. CASE Put(w)
        BY <2>0, <4>1 DEF Put, TypeOK
      <4>2. CASE CheckFile(w)
        BY <2>0, <4>2 DEF CheckFile, TypeOK
      <4>3. CASE Reject(w)
        BY <2>0, <4>3 DEF Reject, TypeOK
      <4>4. QED BY <2>4, <4>1, <4>2, <4>3
    <3>2. ~Written(w) /\ ~Written(w)' /\ ~update[w].unanswered
      BY <2>3, <2>4, <3>1 DEF Written, Unfinished, WritesOnce
    <3>3. \A v \in Update : Written(v)' <=> Written(v)
      BY <2>3, <2>4, <3>2 DEF Written
    <3>4. NamesWriter' /\ OldIsPast'
      BY <2>2, <2>3, <2>4, <3>3
    <3>5. TypeOK' /\ Locals'
      BY <2>3, <2>4, <3>1 DEF TypeOK, Locals
    <3>6. WritesOnce' /\ Unfinished'
      BY <2>3, <2>4, <3>1, <3>2, <3>3 DEF WritesOnce, Unfinished
    <3>7. Stored'
      BY <2>0, <2>3, <2>4, <3>1 DEF Stored
    <3>8. QED BY <3>4, <3>5, <3>6, <3>7
  <2>5. ASSUME NEW w \in Update, CleanupOld(w) PROVE Inv'
    <3>1. /\ update[w].pc = "cleanupOld" /\ update'[w].pc = "saved"
          /\ folder' \subseteq folder /\ folder \subseteq folder' \cup {update[w].old}
      BY <2>0, <2>5 DEF CleanupOld, TypeOK, UpdateState
    <3>2. \A v \in Update : Written(v)' <=> Written(v)
      BY <2>3, <2>5, <3>1 DEF Written
    <3>3. NamesWriter' /\ OldIsPast'
      BY <2>2, <2>3, <2>5, <3>2
    <3>4. TypeOK' /\ Locals' /\ Unfinished'
      BY <2>3, <2>5, <3>1 DEF TypeOK, Locals, Unfinished
    <3>5. update[w].old \in Update /\ Written(w)
      BY <3>1 DEF Locals, Written
    <3>6. \A u \in User : avatar[u] # update[w].old
      BY <2>0, <3>5 DEF OldIsPast
    <3>7. Stored'
      BY <2>0, <2>3, <2>5, <3>1, <3>6 DEF Stored
    <3>8. WritesOnce'
      <4>1. Written(update[w].old)
        BY <2>0, <3>5 DEF OldIsPast
      <4>2. \A v \in Update : update'[v].pc = "save" => v # update[w].old /\ v # w
        BY <2>3, <2>5, <3>1, <4>1 DEF WritesOnce
      <4>3. QED BY <2>3, <2>5, <3>1, <3>2, <4>2 DEF WritesOnce
    <3>9. QED BY <3>3, <3>4, <3>7, <3>8
  <2>6. ASSUME NEW w \in Update, CleanupNew(w) PROVE Inv'
    <3>1. /\ update[w].pc = "cleanupNew" /\ update'[w].pc = "failed"
          /\ folder' \subseteq folder /\ folder \subseteq folder' \cup {w}
      BY <2>0, <2>6 DEF CleanupNew, TypeOK, UpdateState
    <3>2. \A v \in Update : Written(v)' <=> Written(v)
      BY <2>3, <2>6, <3>1 DEF Written
    <3>3. NamesWriter' /\ OldIsPast'
      BY <2>2, <2>3, <2>6, <3>2
    <3>4. TypeOK' /\ Locals' /\ Unfinished'
      BY <2>3, <2>6, <3>1 DEF TypeOK, Locals, Unfinished
    <3>5. \A u \in User : avatar[u] = w => update[w].unanswered
      BY <2>0, <3>1 DEF NamesWriter, Written
    <3>6. Stored'
      BY <2>0, <2>3, <2>6, <3>1, <3>5 DEF Stored
    <3>7. WritesOnce'
      BY <2>3, <2>6, <3>1, <3>2 DEF WritesOnce
    <3>8. QED BY <3>3, <3>4, <3>6, <3>7
  <2>7. ASSUME NEW w \in Update, Save(w) \/ SaveUnanswered(w) PROVE Inv'
    <3> DEFINE u == update[w].user
    <3>1. PICK p \in {"saved", "cleanupOld", "cleanupNew"}, lost \in BOOLEAN :
            /\ update' = [update EXCEPT ![w] =
                  [update[w] EXCEPT !.pc = p, !.replaced = avatar[u], !.unanswered = lost]]
            /\ p = "cleanupNew" => lost
            /\ p = "cleanupOld" => update[w].old # None
      <4>1. CASE Save(w)
        <5>1. ~update[w].unanswered
          BY <4>1 DEF Save, Unfinished
        <5>2. PICK p \in {"saved", "cleanupOld"} :
                 /\ update' = [update EXCEPT ![w] =
                       [update[w] EXCEPT !.pc = p, !.replaced = avatar[u]]]
                 /\ p = "cleanupOld" => update[w].old # None
          BY <4>1 DEF Save
        <5>3. [update[w] EXCEPT !.pc = p, !.replaced = avatar[u]]
                 = [update[w] EXCEPT !.pc = p, !.replaced = avatar[u], !.unanswered = FALSE]
          BY <2>0, <5>1 DEF UpdateState
        <5>4. QED BY <5>2, <5>3
      <4>2. CASE SaveUnanswered(w)
        BY <4>2 DEF SaveUnanswered
      <4>3. QED BY <2>7, <4>1, <4>2
    <3>2. /\ update[w].pc = "save" /\ avatar' = [avatar EXCEPT ![u] = w]
          /\ folder' = folder /\ exists' = exists /\ u \in User
      BY <2>7 DEF Save, SaveUnanswered, TypeOK, Locals
    <3>3. [update[w] EXCEPT !.pc = p, !.replaced = avatar[u], !.unanswered = lost] \in UpdateState
      BY <2>0, <3>2 DEF UpdateState
    <3>4. TypeOK'
      BY <3>1, <3>2, <3>3 DEF TypeOK
    <3>5. /\ \A v \in Update \ {w} : update'[v] = update[v]
          /\ update'[w].pc = p /\ update'[w].unanswered = lost
          /\ update'[w].user = u /\ update'[w].old = update[w].old
          /\ avatar'[u] = w /\ \A t \in User \ {u} : avatar'[t] = avatar[t]
      BY <2>0, <3>1, <3>2 DEF TypeOK, UpdateState
    <3>6. ~Written(w) /\ w \in folder /\ Written(w)'
      BY <3>1, <3>2, <3>5 DEF WritesOnce, Written
    <3>7. \A v \in Update \ {w} : Written(v)' <=> Written(v)
      BY <3>5 DEF Written
    <3>8. Locals' /\ Unfinished'
      BY <2>0, <3>1, <3>2, <3>5 DEF Locals, Unfinished, UpdateState
    <3>9. \A t \in User : avatar[t] # w
      BY <2>0, <3>6 DEF NamesWriter
    <3>10. NamesWriter'
      BY <2>0, <3>2, <3>5, <3>6, <3>7, <3>9 DEF NamesWriter
    <3>11. WritesOnce'
      BY <3>1, <3>2, <3>5, <3>7 DEF WritesOnce
    <3>12. Stored'
      BY <2>0, <3>2, <3>5, <3>6, <3>9 DEF Stored
    <3>13. OldIsPast'
      <4>1. \A v \in Update : update[v].old # w
        BY <2>0, <3>6 DEF OldIsPast
      <4>2. ASSUME NEW v \in Update, update[v].old # None
            PROVE  Written(update[v].old)' /\ update'[update[v].old].user = update'[v].user
        BY <2>0, <3>5, <3>7, <4>1, <4>2 DEF OldIsPast, UpdateState
      <4>3. ASSUME NEW v \in Update \ {w}, Written(v), NEW t \in User, update[v].old # None
            PROVE  avatar'[t] # update[v].old
        BY <2>0, <3>2, <3>5, <4>1, <4>3 DEF OldIsPast
      <4>4. ASSUME NEW t \in User, update[w].old # None
            PROVE  avatar'[t] # update[w].old
        <5>1. CASE t = u
          BY <3>5, <4>1, <5>1
        <5>2. CASE t # u
          BY <2>0, <3>5, <4>4, <5>2 DEF OldIsPast, NamesWriter
        <5>3. QED BY <5>1, <5>2
      <4>5. QED
        BY <3>5, <3>7, <4>2, <4>3, <4>4 DEF OldIsPast
    <3>14. QED BY <3>4, <3>8, <3>10, <3>11, <3>12, <3>13
  <2>8. ASSUME UNCHANGED <<avatar, folder, update>>, exists' \subseteq User PROVE Inv'
    BY <2>8 DEF TypeOK, Locals, NamesWriter, WritesOnce, OldIsPast, Unfinished, Stored, Written
  <2>9. ASSUME NEW u \in User, RemoveUser(u) PROVE Inv'
    BY <2>8, <2>9 DEF RemoveUser, TypeOK
  <2>10. CASE UNCHANGED vars
    BY <2>8, <2>10 DEF vars, TypeOK
  <2>11. QED
    BY <2>1, <2>4, <2>5, <2>6, <2>7, <2>9, <2>10 DEF Next, UpdateNext
<1>3. QED BY <1>1, <1>2, PTL DEF Spec

\* Every variable keeps its type.
THEOREM AvatarTypes == Spec => []TypeOK
<1>1. Inv => TypeOK
  BY DEF Inv
<1>2. QED BY <1>1, AvatarInvariant, PTL

\* The avatar a row names is in the folder, unless the answer to the write that
\* put it there was lost.
THEOREM AvatarStored == Spec => []AvatarIsStored
<1>1. Inv => AvatarIsStored
  BY DEF Inv, TypeOK, Stored, AvatarIsStored
<1>2. QED BY <1>1, AvatarInvariant, PTL

\* What has happened to a request so far.
Stages ==
    \A w \in Update :
        /\ update[w].pc = "idle" => w \notin folder
        /\ update[w].pc \in {"idle", "put", "check", "save"} => update[w].replaced = None
        /\ update[w].pc \notin {"saved", "failed"} => ~update[w].kept

Replacer(w, n) ==
    /\ update[w].replaced = n
    /\ \/ update[w].pc = "cleanupOld"
       \/ update[w].kept
       \/ update[w].old # n
       \/ update[w].unanswered

Explained(n) ==
    \/ \E u \in exists : avatar[u] = n
    \/ update[n].pc \in {"check", "save", "cleanupNew"}
    \/ update[n].kept
    \/ update[n].user \notin exists
    \/ \E w \in Update : Replacer(w, n)

\* A step that writes no row, and whose request has replaced none or goes on as it was.
LEMMA ExplainedKept ==
    ASSUME UNCHANGED <<exists, avatar>>, NEW w \in Update, NEW n \in Update, n # w,
           Explained(n), \A v \in Update \ {w} : update'[v] = update[v],
           Replacer(w, n) => Replacer(w, n)'
    PROVE  Explained(n)'
<1>1. CASE \E v \in Update : Replacer(v, n)
  <2>1. PICK v \in Update : Replacer(v, n) BY <1>1
  <2>2. Replacer(v, n)' BY <2>1 DEF Replacer
  <2> QED BY <2>2 DEF Explained
<1> QED BY <1>1 DEF Explained

LEMMA Orphans ==
    ASSUME Inv, Stages, OrphansAreExplained, [Next]_vars
    PROVE  Stages' /\ OrphansAreExplained'
<1> USE DEF Inv
<1>1. /\ update \in [Update -> UpdateState] /\ avatar \in [User -> Update \cup {None}]
      /\ folder \subseteq Update /\ exists \subseteq User /\ None \notin Update
  BY NoneAssumption DEF TypeOK
<1>2. \A n \in folder : Explained(n) BY DEF OrphansAreExplained, Explained, Replacer
<1>3. (\A n \in folder' : Explained(n)') => OrphansAreExplained'
  BY DEF OrphansAreExplained, Explained, Replacer
<1>4. ASSUME NEW w \in Update, NEW u \in User, Read(w, u)
      PROVE  Stages' /\ OrphansAreExplained'
  <2>1. /\ update[w].pc = "idle" /\ UNCHANGED <<exists, avatar, folder>>
        /\ \A v \in Update \ {w} : update'[v] = update[v]
        /\ update'[w].pc = "put" /\ update'[w].replaced = update[w].replaced
        /\ update'[w].kept = update[w].kept
    BY <1>1, <1>4 DEF Read, UpdateState
  <2>2. Stages' BY <2>1 DEF Stages
  <2>3. w \notin folder /\ update[w].replaced = None BY <2>1 DEF Stages
  <2>4. ASSUME NEW n \in folder' PROVE Explained(n)'
    <3>1. n \in folder /\ n \in Update /\ n # w BY <1>1, <2>1, <2>3
    <3>2. ~Replacer(w, n) BY <1>1, <2>3, <3>1 DEF Replacer
    <3> QED BY <1>2, <2>1, <3>1, <3>2, ExplainedKept
  <2> QED BY <1>3, <2>2, <2>4
<1>5. ASSUME NEW w \in Update, Put(w) \/ CheckFile(w) \/ Reject(w)
      PROVE  Stages' /\ OrphansAreExplained'
  <2>1. /\ update[w].pc \in {"put", "check", "save"} /\ UNCHANGED <<exists, avatar>>
        /\ folder' \subseteq folder \cup {w}
        /\ \E pc \in {"check", "save", "cleanupNew"} :
              update' = [update EXCEPT ![w] = [update[w] EXCEPT !.pc = pc]]
    BY <1>5 DEF Put, CheckFile, Reject
  <2>2. /\ \A v \in Update \ {w} : update'[v] = update[v]
        /\ update'[w].pc \in {"check", "save", "cleanupNew"}
        /\ update'[w].replaced = update[w].replaced /\ update'[w].kept = update[w].kept
    BY <1>1, <2>1 DEF UpdateState
  <2>3. Stages' BY <2>1, <2>2 DEF Stages
  <2>4. update[w].replaced = None BY <2>1 DEF Stages
  <2>5. ASSUME NEW n \in folder' PROVE Explained(n)'
    <3>1. CASE n = w BY <2>2, <3>1 DEF Explained
    <3>2. CASE n # w
      <4>1. n \in folder /\ n \in Update BY <1>1, <2>1, <3>2
      <4>2. ~Replacer(w, n) BY <1>1, <2>4, <4>1 DEF Replacer
      <4> QED BY <1>2, <2>1, <2>2, <3>2, <4>1, <4>2, ExplainedKept
    <3> QED BY <3>1, <3>2
  <2> QED BY <1>3, <2>3, <2>5
<1>6. ASSUME NEW w \in Update, Save(w) \/ SaveUnanswered(w)
      PROVE  Stages' /\ OrphansAreExplained'
  <2>1. PICK u : u = update[w].user OBVIOUS
  <2>2. /\ update[w].pc = "save" /\ u \in exists /\ UNCHANGED <<exists, folder>>
        /\ avatar' = [avatar EXCEPT ![u] = w]
    BY <1>6, <2>1 DEF Save, SaveUnanswered
  <2>3. /\ avatar'[u] = w /\ \A t \in User \ {u} : avatar'[t] = avatar[t]
        /\ u \in User
    BY <1>1, <2>2
  <2>4. /\ \A v \in Update \ {w} : update'[v] = update[v]
        /\ update'[w].pc \in {"saved", "cleanupOld", "cleanupNew"}
        /\ update'[w].replaced = avatar[u]
        /\ update'[w].kept = update[w].kept
        /\ update'[w].old = update[w].old
        /\ \/ update'[w].pc = "cleanupOld" \/ update'[w].unanswered
           \/ update'[w].old = None
    <3>1. CASE Save(w) BY <1>1, <2>1, <3>1 DEF Save, UpdateState
    <3>2. CASE SaveUnanswered(w) BY <1>1, <2>1, <3>2 DEF SaveUnanswered, UpdateState
    <3> QED BY <1>6, <3>1, <3>2
  <2>5. Stages' BY <2>2, <2>4 DEF Stages
  <2>6. update[w].replaced = None BY <2>2 DEF Stages
  <2>7. ASSUME NEW n \in folder' PROVE Explained(n)'
    <3>1. n \in folder /\ n \in Update BY <1>1, <2>2
    <3>2. CASE n = w BY <2>2, <2>3, <3>2 DEF Explained
    <3>3. CASE n # w /\ avatar[u] = n
      <4>1. Replacer(w, n)' BY <1>1, <2>4, <3>1, <3>3 DEF Replacer
      <4> QED BY <4>1 DEF Explained
    <3>4. CASE n # w /\ avatar[u] # n
      <4>1. CASE \E t \in exists : avatar[t] = n
        BY <1>1, <2>2, <2>3, <3>4, <4>1 DEF Explained
      <4>2. CASE \E v \in Update : Replacer(v, n)
        <5>1. PICK v \in Update : Replacer(v, n) BY <4>2
        <5>2. v # w BY <1>1, <2>6, <3>1, <5>1 DEF Replacer
        <5>3. Replacer(v, n)' BY <2>4, <5>1, <5>2 DEF Replacer
        <5> QED BY <5>3 DEF Explained
      <4> QED BY <1>2, <2>2, <2>4, <3>1, <3>4, <4>1, <4>2 DEF Explained
    <3> QED BY <3>2, <3>3, <3>4
  <2> QED BY <1>3, <2>5, <2>7
<1>7. ASSUME NEW w \in Update, CleanupOld(w) PROVE Stages' /\ OrphansAreExplained'
  <2>1. PICK kept \in BOOLEAN :
            /\ update[w].pc = "cleanupOld" /\ UNCHANGED <<exists, avatar>>
            /\ update' = [update EXCEPT ![w] = [update[w] EXCEPT !.pc = "saved", !.kept = kept]]
            /\ folder' \subseteq folder
            /\ ~kept => update[w].old \notin folder'
    BY <1>7 DEF CleanupOld
  <2>2. /\ \A v \in Update \ {w} : update'[v] = update[v]
        /\ update'[w].pc = "saved" /\ update'[w].kept = kept
        /\ update'[w].replaced = update[w].replaced /\ update'[w].old = update[w].old
        /\ update'[w].unanswered = update[w].unanswered /\ update'[w].user = update[w].user
    BY <1>1, <2>1 DEF UpdateState
  <2>3. Stages' BY <2>1, <2>2 DEF Stages
  <2>4. ASSUME NEW n \in folder' PROVE Explained(n)'
    <3>1. n \in folder /\ n \in Update BY <1>1, <2>1
    <3>2. CASE n # w
      <4>1. Replacer(w, n) => Replacer(w, n)' BY <2>1, <2>2 DEF Replacer
      <4> QED BY <1>2, <2>1, <2>2, <3>1, <3>2, <4>1, ExplainedKept
    <3>3. CASE n = w
      <4>1. ~update[w].kept BY <2>1 DEF Stages
      <4>2. CASE \E v \in Update : Replacer(v, w)
        <5>1. PICK v \in Update : Replacer(v, w) BY <4>2
        <5>2. Replacer(v, w)' BY <2>1, <2>2, <3>3, <5>1 DEF Replacer
        <5> QED BY <3>3, <5>2 DEF Explained
      <4> QED BY <1>2, <2>1, <2>2, <3>1, <3>3, <4>1, <4>2 DEF Explained
    <3> QED BY <3>2, <3>3
  <2> QED BY <1>3, <2>3, <2>4
<1>8. ASSUME NEW w \in Update, CleanupNew(w) PROVE Stages' /\ OrphansAreExplained'
  <2>1. PICK kept \in BOOLEAN :
            /\ update[w].pc = "cleanupNew" /\ UNCHANGED <<exists, avatar>>
            /\ update' = [update EXCEPT ![w] = [update[w] EXCEPT !.pc = "failed", !.kept = kept]]
            /\ folder' \subseteq folder
            /\ ~kept => w \notin folder'
    BY <1>8 DEF CleanupNew
  <2>2. /\ \A v \in Update \ {w} : update'[v] = update[v]
        /\ update'[w].pc = "failed" /\ update'[w].kept = kept
        /\ update'[w].replaced = update[w].replaced /\ update'[w].old = update[w].old
        /\ update'[w].unanswered = update[w].unanswered
    BY <1>1, <2>1 DEF UpdateState
  <2>3. Stages' BY <2>1, <2>2 DEF Stages
  <2>4. ASSUME NEW n \in folder' PROVE Explained(n)'
    <3>1. n \in folder /\ n \in Update BY <1>1, <2>1
    <3>2. CASE n = w BY <2>1, <2>2, <3>2 DEF Explained
    <3>3. CASE n # w
      <4>1. ~update[w].kept BY <2>1 DEF Stages
      <4>2. Replacer(w, n) => Replacer(w, n)' BY <2>1, <2>2, <4>1 DEF Replacer
      <4> QED BY <1>2, <2>1, <2>2, <3>1, <3>3, <4>2, ExplainedKept
    <3> QED BY <3>2, <3>3
  <2> QED BY <1>3, <2>3, <2>4
<1>9. ASSUME UNCHANGED <<avatar, folder, update>>,
             \/ exists' = exists
             \/ \E u \in exists : exists' = exists \ {u}
      PROVE  Stages' /\ OrphansAreExplained'
  <2>1. Stages' BY <1>9 DEF Stages
  <2>2. ASSUME NEW n \in folder' PROVE Explained(n)'
    <3>1. n \in folder /\ n \in Update BY <1>1, <1>9
    <3>2. exists' \subseteq exists BY <1>9
    <3>3. CASE \E u \in exists : avatar[u] = n
      <4>1. PICK u \in exists : avatar[u] = n BY <3>3
      <4>2. update[n].user = u BY <1>1, <3>1, <4>1 DEF NamesWriter
      <4> QED BY <1>9, <4>1, <4>2 DEF Explained
    <3>4. CASE \E v \in Update : Replacer(v, n)
      BY <1>9, <3>4 DEF Explained, Replacer
    <3> QED BY <1>2, <1>9, <3>1, <3>2, <3>3, <3>4 DEF Explained
  <2> QED BY <1>3, <2>1, <2>2
<1> QED
  BY <1>4, <1>5, <1>6, <1>7, <1>8, <1>9 DEF Next, UpdateNext, RemoveUser, vars

\* A file no row names is on its way, or one of the leaks the code accepts: cleanup
\* failed, the account was removed, or the one that replaced it had read another.
THEOREM OrphansExplained == Spec => []OrphansAreExplained
<1>1. Init => Stages /\ OrphansAreExplained
  BY NoneAssumption DEF Init, Stages, OrphansAreExplained
<1>2. Inv /\ (Stages /\ OrphansAreExplained) /\ [Next]_vars
        => (Stages /\ OrphansAreExplained)'
  BY Orphans
<1> QED BY <1>1, <1>2, AvatarInvariant, PTL DEF Spec

==============================================================================
