------------------------------- MODULE Content -------------------------------
(***************************************************************************)
(* The pages an administrator edits: the questions and answers             *)
(* (admin/faq, read in application/faq) and the website's own data         *)
(* (admin/website-info).  A batch of questions replaces the rows one       *)
(* statement at a time and outside a transaction; the website's one row is *)
(* found or created without a unique key.                                  *)
(***************************************************************************)
EXTENDS Naturals, Sequences

CONSTANTS
    Faq,      \* the rows there are at first
    Batch,    \* POST /admin/faq/batch-create requests
    List,     \* what a batch may carry: ids of rows, and New for entries without id
    New,
    Post,     \* POST /admin/faq requests; one names the row it creates
    Patch,    \* PATCH /admin/faq/:id requests
    Publish,  \* POST /admin/website-info requests; one names the row it may create
    Peek,     \* GET requests
    Null

Place == UNION {DOMAIN L : L \in List}
\* The entry of b at place i makes the row <<b, i>>.
FaqRow == Faq \cup Post \cup (Batch \X Place)

ASSUME ContentAssumption ==
    /\ List \subseteq Seq(Faq \cup {New})
    /\ New \notin FaqRow
    /\ Faq \cap Post = {}
    /\ Faq \cap (Batch \X Place) = {} /\ Post \cap (Batch \X Place) = {}
    /\ Null \notin Publish
    /\ Batch \cap Publish = {}

VARIABLES
    faqs,      \* faqs: the rows that exist
    asked,     \* the POST and PATCH requests made
    batch,
    sites,     \* website_infos: the rows that exist
    publish,
    peek,
    clash      \* history: pairs of publishes that were creating the row at once

contentVars == <<faqs, asked, batch, sites, publish, peek, clash>>

\* "old" are the rows it has yet to delete and "next" the entry it is at.  History:
\* the rows there were when it began, whether anything else has written the table
\* since, and what it left.
BatchState ==
    [pc : {"idle", "run", "done", "missed", "cut"}, list : List \cup {<<>>},
     old : SUBSET FaqRow, next : Nat, began : SUBSET FaqRow, alone : BOOLEAN,
     left : SUBSET FaqRow]
PublishState == [pc : {"idle", "write", "done", "failed"}, row : Publish \cup {Null}]
\* "after" is history: the batches and publishes that had answered before.
PeekState == [pc : {"idle", "faqs", "site", "broken"}, seen : SUBSET FaqRow,
              after : SUBSET (Batch \cup Publish)]

\* Every variable holds a value of its kind.
ContentTypeOK ==
    /\ faqs \subseteq FaqRow
    /\ asked \subseteq Post \cup Patch
    /\ batch \in [Batch -> BatchState]
    /\ sites \subseteq Publish
    /\ publish \in [Publish -> PublishState]
    /\ peek \in [Peek -> PeekState]
    /\ clash \subseteq {{v, w} : v, w \in Publish}

ContentInit ==
    /\ faqs = Faq
    /\ asked = {}
    /\ batch = [b \in Batch |-> [pc |-> "idle", list |-> <<>>, old |-> {}, next |-> 1,
                                 began |-> {}, alone |-> TRUE, left |-> {}]]
    /\ sites = {}
    /\ publish = [w \in Publish |-> [pc |-> "idle", row |-> Null]]
    /\ peek = [l \in Peek |-> [pc |-> "idle", seen |-> {}, after |-> {}]]
    /\ clash = {}

Listed(L) == {L[i] : i \in DOMAIN L} \ {New}
Running(b) == batch[b].pc = "run"
\* History: the table is written, by the batch b if S = {b}.
Written(S) == [b \in Batch |-> IF Running(b) /\ b \notin S THEN [batch[b] EXCEPT !.alone = FALSE]
                                                        ELSE batch[b]]

------------------------------------------------------------------------------
(* A batch of questions *)

\* Variant: the rows that are listed are not kept.
BatchReadAll(b, L) ==
    /\ batch[b].pc = "idle"
    /\ batch' = [batch EXCEPT ![b] = [@ EXCEPT !.pc = "run", !.list = L, !.old = faqs,
                                               !.began = faqs]]
    /\ UNCHANGED <<faqs, asked, sites, publish, peek, clash>>

\* faq.findMany.
BatchRead(b, L) ==
    /\ batch[b].pc = "idle"
    /\ batch' = [batch EXCEPT ![b] = [@ EXCEPT !.pc = "run", !.list = L,
                                               !.old = faqs \ Listed(L), !.began = faqs]]
    /\ UNCHANGED <<faqs, asked, sites, publish, peek, clash>>

\* faq.delete of a row that was read and is not listed; the query names no order.
BatchDelete(b, r) ==
    /\ Running(b)
    /\ r \in batch[b].old \cap faqs
    /\ faqs' = faqs \ {r}
    /\ batch' = [Written({b}) EXCEPT ![b].old = @ \ {r}]
    /\ UNCHANGED <<asked, sites, publish, peek, clash>>

\* faq.update of a row that is listed, or faq.create for an entry without id.
BatchWrite(b) ==
    LET L == batch[b].list
        i == batch[b].next
        r == IF L[i] = New THEN <<b, i>> ELSE L[i]
    IN  /\ Running(b)
        /\ batch[b].old = {}
        /\ i \in DOMAIN L
        /\ L[i] = New \/ r \in faqs
        /\ faqs' = faqs \cup {r}
        /\ batch' = [Written({b}) EXCEPT ![b].next = i + 1]
        /\ UNCHANGED <<asked, sites, publish, peek, clash>>

\* The answer.
BatchDone(b) ==
    /\ Running(b)
    /\ batch[b].old = {}
    /\ batch[b].next \notin DOMAIN batch[b].list
    /\ batch' = [batch EXCEPT ![b].pc = "done", ![b].left = faqs]
    /\ UNCHANGED <<faqs, asked, sites, publish, peek, clash>>

\* The row of the next statement is gone (P2025).  Nothing is taken back.
BatchMisses(b) ==
    LET L == batch[b].list
        i == batch[b].next
    IN  /\ Running(b)
        /\ \/ \E r \in batch[b].old : r \notin faqs
           \/ batch[b].old = {} /\ i \in DOMAIN L /\ L[i] # New /\ L[i] \notin faqs
        /\ batch' = [batch EXCEPT ![b].pc = "missed"]
        /\ UNCHANGED <<faqs, asked, sites, publish, peek, clash>>

\* No connection, or the process stops.  Nothing is taken back.
BatchCut(b) ==
    /\ Running(b)
    /\ batch' = [batch EXCEPT ![b].pc = "cut"]
    /\ UNCHANGED <<faqs, asked, sites, publish, peek, clash>>

------------------------------------------------------------------------------
(* One question at a time *)

FaqCreate(p) ==
    /\ p \in Post \ asked
    /\ faqs' = faqs \cup {p}
    /\ asked' = asked \cup {p}
    /\ batch' = Written({})
    /\ UNCHANGED <<sites, publish, peek, clash>>

\* The question only, whatever else the body carries; columns are left out here.
FaqUpdate(p, r) ==
    /\ p \in Patch \ asked
    /\ r \in faqs
    /\ asked' = asked \cup {p}
    /\ batch' = Written({})
    /\ UNCHANGED <<faqs, sites, publish, peek, clash>>

FaqRemove(r) ==
    /\ r \in faqs
    /\ faqs' = faqs \ {r}
    /\ batch' = Written({})
    /\ UNCHANGED <<asked, sites, publish, peek, clash>>

------------------------------------------------------------------------------
(* The website's own data *)

\* The lookup that decides, after those that an image needs: no file is ever stored,
\* as the field holds an array of files and so has no buffer, and the adapter keeps
\* the error to itself; so there is none to delete either.
PublishFind(w, x) ==
    /\ publish[w].pc = "idle"
    /\ x \in sites \/ (sites = {} /\ x = Null)
    /\ publish' = [publish EXCEPT ![w] = [pc |-> "write", row |-> x]]
    /\ clash' = IF x # Null THEN clash
                ELSE clash \cup {{v, w} : v \in {v \in Publish : publish[v].pc = "write"
                                                                 /\ publish[v].row = Null}}
    /\ UNCHANGED <<faqs, asked, batch, sites, peek>>

\* websiteInfo.update or create, which stores the names made for the images.  The two
\* updates that follow set them to undefined, which Prisma leaves out; a failure
\* there is answered though the row is written.
PublishWrite(w) ==
    LET x == IF publish[w].row = Null THEN w ELSE publish[w].row
    IN  /\ publish[w].pc = "write"
        /\ sites' = sites \cup {x}
        /\ \E pc \in {"done", "failed"} : publish' = [publish EXCEPT ![w].pc = pc]
        /\ UNCHANGED <<faqs, asked, batch, peek, clash>>

\* No connection.
PublishFails(w) ==
    /\ publish[w].pc = "write"
    /\ publish' = [publish EXCEPT ![w].pc = "failed"]
    /\ UNCHANGED <<faqs, asked, batch, sites, peek, clash>>

------------------------------------------------------------------------------
(* Reading *)

Answered == {b \in Batch : batch[b].pc = "done"} \cup {w \in Publish : publish[w].pc = "done"}

PeekAll(l) ==
    /\ peek[l].pc = "idle"
    /\ peek' = [peek EXCEPT ![l] = [pc |-> "faqs", seen |-> faqs, after |-> Answered]]
    /\ UNCHANGED <<faqs, asked, batch, sites, publish, clash>>

\* findUnique; null is an answer.
PeekOne(l, r) ==
    /\ peek[l].pc = "idle"
    /\ peek' = [peek EXCEPT ![l] = [pc |-> "faqs", seen |-> faqs \cap {r}, after |-> Answered]]
    /\ UNCHANGED <<faqs, asked, batch, sites, publish, clash>>

\* findFirst, whose null has no logo: the TypeError is answered.
PeekSite(l) ==
    /\ peek[l].pc = "idle"
    /\ peek' = [peek EXCEPT ![l] =
           [pc |-> IF sites = {} THEN "broken" ELSE "site", seen |-> {}, after |-> Answered]]
    /\ UNCHANGED <<faqs, asked, batch, sites, publish, clash>>

------------------------------------------------------------------------------
BatchNext(b) ==
    \/ \E L \in List : BatchRead(b, L)
    \/ \E r \in FaqRow : BatchDelete(b, r)
    \/ BatchWrite(b)
    \/ BatchDone(b)
    \/ BatchMisses(b)
    \/ BatchCut(b)

PublishNext(w) ==
    \/ \E x \in Publish \cup {Null} : PublishFind(w, x)
    \/ PublishWrite(w)
    \/ PublishFails(w)

\* GET /admin/faq and /admin/faq/:id.
PeekNext(l) ==
    \/ PeekAll(l)
    \/ \E r \in FaqRow : PeekOne(l, r)

\* GET /faq and /faq/:id: the same queries, for everybody.
PublicNext(l) == PeekNext(l)

\* POST, PATCH and DELETE /admin/faq.
FaqNext ==
    \/ \E p \in Post : FaqCreate(p)
    \/ \E p \in Patch, r \in FaqRow : FaqUpdate(p, r)
    \/ \E r \in FaqRow : FaqRemove(r)

ContentNext ==
    \/ \E b \in Batch : BatchNext(b)
    \/ FaqNext
    \/ \E w \in Publish : PublishNext(w)
    \/ \E l \in Peek : PeekNext(l) \/ PublicNext(l) \/ PeekSite(l)

ContentSpec == ContentInit /\ [][ContentNext]_contentVars

------------------------------------------------------------------------------
(* Properties *)

\* A batch that nothing else wrote next to leaves the rows it lists and one for
\* each entry without id, and misses a row only if it listed one that was not there.
BatchesReplace ==
    \A b \in Batch :
        LET L == batch[b].list
        IN  /\ batch[b].pc = "done" /\ batch[b].alone =>
                   batch[b].left = Listed(L) \cup {<<b, i>> : i \in {i \in DOMAIN L : L[i] = New}}
            /\ batch[b].pc = "missed" /\ batch[b].alone => ~(Listed(L) \subseteq batch[b].began)

\* The website has two rows only if both were being created at once.
SiteIsOne == \A v, w \in sites : v # w => {v, w} \in clash

\* Nobody is shown a row after a batch that dropped it has answered, though batches
\* overlap, or is told that there is no website after a publish has answered.
ReadersSeeAnswers ==
    \A l \in Peek :
        /\ \A b \in Batch \cap peek[l].after :
             peek[l].seen \cap (batch[b].began \ Listed(batch[b].list)) = {}
        /\ peek[l].pc = "broken" => Publish \cap peek[l].after = {}

\* What an administrator was told is what there is.
ContentIsWhole == BatchesReplace /\ SiteIsOne /\ ReadersSeeAnswers

=============================================================================
