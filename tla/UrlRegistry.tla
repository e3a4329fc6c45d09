------------------------------ MODULE UrlRegistry ------------------------------
(***************************************************************************)
(* The URL records of one site: the address an edition is reserved when it *)
(* is approved or added to the site, its activation when the release is    *)
(* registered, its renaming, which leaves a redirect behind, and its end   *)
(* as a gone (410) record when the edition is taken down.                  *)
(*                                                                         *)
(* Every operation is a transaction that reads the records of the site,    *)
(* has the domain package validate the change and then writes by record    *)
(* id.  All of them but the renaming hold the lock of the edition.  Only   *)
(* the unique key on the address is checked by the database, and the       *)
(* revision passed to the domain package is the one just read.             *)
(***************************************************************************)
EXTENDS Integers, FiniteSets

CONSTANTS Editions,
          Primary,    \* editions whose primary site is this one
          Paths,
          MaxRecords, \* bound on the records ever inserted
          Renames     \* renaming transactions open at a time

ASSUME UrlRegistryAssumption == Primary \subseteq Editions /\ MaxRecords \in Nat \ {0}

None == 0
Ids == 1..MaxRecords

VARIABLES status,    \* workflow status of each edition
          row,       \* publish state of its row in edition_sites for this site
          record,    \* the URL records, by id
          locked,    \* the transaction that holds the lock of each edition
          rename,    \* the open renaming transactions
          upset      \* history: what happened to an edition.  A record of it was
                     \* written that was no longer in the state it was read in; its
                     \* assignment was dropped with an active record; the receipt of
                     \* its own takedown revived its row

urlVars == <<status, row, record, locked, rename, upset>>

NoRecord == [state |-> "none"]
Records == {NoRecord} \cup [state: {"reserved", "active", "gone", "redirected", "deleted"},
                            edition: Editions, path: Paths, target: {None} \cup Ids]
Record(e, p, state, target) == [state |-> state, edition |-> e, path |-> p, target |-> target]

\* id is the record the transaction found, None when it inserts one at path.
Closed == [kind |-> "idle"]
Transactions ==
  {Closed} \cup [kind: {"approve", "add", "activate", "takedown", "drop"},
               id: {None} \cup Ids, path: {None} \cup Paths]
Renamings == {Closed} \cup [kind: {"rename"}, id: Ids, path: Paths]

UrlTypeOK ==
  /\ status \in [Editions -> {"draft", "approved", "compiled", "published", "archived"}]
  /\ row \in [Editions -> {"absent", "pending", "published", "unpublished"}]
  /\ record \in [Ids -> Records]
  /\ locked \in [Editions -> Transactions]
  /\ rename \in [Renames -> Renamings]
  /\ upset \subseteq Editions \X {"overtaken", "dropped", "revived"}

\* Drafts assigned to the site, and editions published on other sites only.
UrlInit ==
  /\ status \in [Editions -> {"draft", "published"}]
  /\ \A e \in Primary : status[e] = "draft"
  /\ row = [e \in Editions |-> IF status[e] = "draft" THEN "pending" ELSE "absent"]
  /\ record = [i \in Ids |-> NoRecord]
  /\ locked = [e \in Editions |-> Closed]
  /\ rename = [t \in Renames |-> Closed]
  /\ upset = {}

(***************************************************************************)
(* The registry read in a transaction (buildSiteRegistry).                 *)
(***************************************************************************)
Present == {i \in Ids : record[i].state \notin {"none", "deleted"}}
Free(p) == \A i \in Present : record[i].path # p
In(states, e) == {i \in Present : record[i].state \in states /\ record[i].edition = e}
Live(e) == In({"reserved", "active"}, e)
Member(e) == row[e] \in {"pending", "published"}

Unused == {i \in Ids : record[i].state = "none"}
NextId == CHOOSE i \in Unused : \A j \in Unused : i <= j
Insertable(p) == Free(p) /\ Unused # {}  \* the unique key, and the bound
Latest(S) == CHOOSE i \in S : \A j \in S : j <= i

\* What the writes of a transaction make of the records: by id, with no look at the
\* state of the record.  (Variants named after a mistake are used by no action.)
Insert(e, p, state) == [record EXCEPT ![NextId] = Record(e, p, state, None)]
Rewritten(i, state) == [record EXCEPT ![i] = Record(@.edition, @.path, state, None)]
GoneWithRedirects(records, e) ==
  [i \in Ids |-> IF records[i].state = "redirected" /\ records[i].edition = e
                   THEN Record(e, records[i].path, "gone", None) ELSE records[i]]

(***************************************************************************)
(* Lane moves without a change of the registry.                            *)
(***************************************************************************)
Unlocked(e) == locked[e] = Closed

\* transitionEditionWithinTx to another lane than approved, createDraftFromPublished.
Move(e, lane) ==
  /\ Unlocked(e)
  /\ status[e] # lane
  /\ status' = [status EXCEPT ![e] = lane]
  /\ UNCHANGED <<row, record, locked, rename, upset>>

\* recordCompileResult: the first compilation of an approved edition resets its row, that
\* of an edition taken down included, whose re-release is compiled; a later one with
\* another release resets a published row.
Compile(e) ==
  /\ Unlocked(e)
  /\ \/ /\ status[e] = "approved" /\ row[e] # "absent"
        /\ status' = [status EXCEPT ![e] = "compiled"]
     \/ status[e] \in {"compiled", "published"} /\ row[e] = "published" /\ UNCHANGED status
  /\ row' = [row EXCEPT ![e] = "pending"]
  /\ upset' = IF row[e] = "unpublished" THEN upset \cup {<<e, "revived">>} ELSE upset
  /\ UNCHANGED <<record, locked, rename>>

(***************************************************************************)
(* The transactions under the lock of the edition: what each reads.        *)
(***************************************************************************)
Begin(e, kind, i, p) == /\ locked' = [locked EXCEPT ![e] = [kind |-> kind, id |-> i, path |-> p]]
                        /\ UNCHANGED <<status, row, record, rename, upset>>

StatusAfter(e, kind) == [approve |-> "approved", add |-> status[e], takedown |-> status[e],
                         drop |-> status[e], activate |-> "published"][kind]
RowAfter(e, kind) == [approve |-> row[e], add |-> "pending", takedown |-> "unpublished",
                      drop |-> "absent", activate |-> "published"][kind]
Outcome(e, kind) == /\ status' = [status EXCEPT ![e] = StatusAfter(e, kind)]
                    /\ row' = [row EXCEPT ![e] = RowAfter(e, kind)]

\* Approval reserves an address on every desired site: those the edition is assigned
\* to, or its primary one when it is assigned to none; addSite on the added one.
MayReserve(e, kind) ==
  \/ kind = "approve" /\ status[e] # "approved" /\ (Member(e) \/ e \in Primary)
  \/ kind = "add" /\ status[e] = "published" /\ row[e] \in {"absent", "unpublished"}

\* reserveEditionUrlWithinTx that finds a record to use: nothing is written.
ReserveLive(e, kind) ==
  /\ Unlocked(e) /\ MayReserve(e, kind)
  /\ Live(e) # {}
  /\ Outcome(e, kind)
  /\ UNCHANGED <<record, locked, rename, upset>>

\* The latest gone record is to be reset, else one inserted; a title whose path is
\* taken makes the transaction fail.
ReadReserve(e, kind) ==
  LET gone == In({"gone"}, e)
  IN /\ Unlocked(e) /\ MayReserve(e, kind)
     /\ Live(e) = {}
     /\ \/ gone # {} /\ Begin(e, kind, Latest(gone), None)
        \/ gone = {} /\ \E p \in Paths : Free(p) /\ Begin(e, kind, None, p)

\* The edition is assigned to other sites only.
ApproveElsewhere(e) ==
  /\ Unlocked(e)
  /\ status[e] # "approved" /\ ~Member(e)
  /\ Outcome(e, "approve")
  /\ UNCHANGED <<record, locked, rename, upset>>

\* recordPublishedRelease and activatePublishedEditionUrl: a reserved record is to be
\* activated, else an active one stands.
ReadActivate(e) ==
  /\ Unlocked(e)
  /\ Member(e)
  /\ row[e] = "pending" => status[e] \in {"compiled", "published"}
  /\ \/ \E i \in In({"reserved"}, e) : Begin(e, "activate", i, None)
     \/ In({"reserved"}, e) = {} /\ Begin(e, "activate", None, None)

\* removeSite of a published row, markUrlGone.
ReadTakedown(e) ==
  /\ Unlocked(e)
  /\ status[e] = "published" /\ row[e] = "published"
  /\ \E i \in In({"active"}, e) : Begin(e, "takedown", i, None)

\* removeSite of a row that is not published: only a reserved record goes with it.
ReadDrop(e) ==
  /\ Unlocked(e)
  /\ status[e] = "published" /\ row[e] = "pending"
  /\ \/ \E i \in In({"reserved"}, e) : Begin(e, "drop", i, None)
     \/ In({"reserved"}, e) = {} /\ Begin(e, "drop", None, None)

(***************************************************************************)
(* What each writes and commits.                                           *)
(***************************************************************************)
ReadState(kind) == [approve |-> "gone", add |-> "gone", activate |-> "reserved",
                    takedown |-> "active", drop |-> "reserved"][kind]

Activated(i) == Rewritten(i, "active")

Written(e) ==
  LET kind == locked[e].kind
      i == locked[e].id
  IN CASE kind \in {"approve", "add"} /\ i = None -> Insert(e, locked[e].path, "reserved")
       [] kind \in {"approve", "add"} /\ i # None -> Rewritten(i, "reserved")
       [] kind = "activate" -> IF i = None THEN record ELSE Activated(i)
       [] kind = "takedown" -> GoneWithRedirects(Rewritten(i, "gone"), e)
       [] kind = "drop" -> GoneWithRedirects(IF i = None THEN record
                                             ELSE Rewritten(i, "deleted"), e)

Inserts(e) == locked[e].kind \in {"approve", "add"} /\ locked[e].id = None

Overtaken(i, read) == {j \in Ids : j = i /\ record[j].state # read}

Commit(e) ==
  LET kind == locked[e].kind
      i == locked[e].id
      stands == Inserts(e) => Insertable(locked[e].path)
  IN /\ ~Unlocked(e)
     /\ locked' = [locked EXCEPT ![e] = Closed]
     /\ \/ /\ stands
           /\ record' = Written(e)
           /\ Outcome(e, kind)
           /\ upset' = upset \cup {<<e, "overtaken">> : x \in Overtaken(i, ReadState(kind))}
                             \cup {<<e, "dropped">> : x \in IF kind = "drop" THEN In({"active"}, e) ELSE {}}
        \/ /\ ~stands
           /\ UNCHANGED <<status, row, record, upset>>
     /\ UNCHANGED rename

(***************************************************************************)
(* Renaming: handleRename and renameUrl.  It takes no lock.                *)
(***************************************************************************)
\* validateRedirectGraph with the source redirected: no redirect of the site leads to
\* it, and every one leads to an active record.
AnyGraph(i) == TRUE
GraphAllows(i) ==
  \A r \in Present : record[r].state = "redirected"
    => record[r].target # i /\ record[record[r].target].state = "active"

ReadRename(t, i, p) ==
  /\ rename[t] = Closed
  /\ i \in Present /\ record[i].state = "active"
  /\ Free(p)
  /\ GraphAllows(i)
  /\ rename' = [rename EXCEPT ![t] = [kind |-> "rename", id |-> i, path |-> p]]
  /\ UNCHANGED <<status, row, record, locked, upset>>

\* The target is inserted, then the source updated by its id, whatever it is by now; an
\* update of a deleted record changes nothing.
RenamedToPath(i, p) ==
  [Insert(record[i].edition, p, "active")
     EXCEPT ![i] = Record(record[i].edition, @.path, "redirected", p)]
Renamed(i, p) ==
  LET e == record[i].edition
      inserted == Insert(e, p, "active")
  IN IF record[i].state = "deleted" THEN inserted
     ELSE [inserted EXCEPT ![i] = Record(e, @.path, "redirected", NextId)]

CommitRename(t) ==
  LET i == rename[t].id
      p == rename[t].path
  IN /\ rename[t] # Closed
     /\ rename' = [rename EXCEPT ![t] = Closed]
     /\ \/ /\ Insertable(p)
           /\ record' = Renamed(i, p)
           /\ upset' = upset \cup {<<record[i].edition, "overtaken">> : x \in Overtaken(i, "active")}
        \/ ~Insertable(p) /\ UNCHANGED <<record, upset>>
     /\ UNCHANGED <<status, row, locked>>

UrlNext ==
  \/ \E e \in Editions :
       \/ Move(e, "draft") \/ Move(e, "archived") \/ Compile(e) \/ ApproveElsewhere(e)
       \/ \E kind \in {"approve", "add"} : ReserveLive(e, kind) \/ ReadReserve(e, kind)
       \/ ReadActivate(e) \/ ReadTakedown(e) \/ ReadDrop(e)
       \/ Commit(e)
  \/ \E t \in Renames : CommitRename(t) \/ \E i \in Ids, p \in Paths : ReadRename(t, i, p)

UrlSpec == UrlInit /\ [][UrlNext]_urlVars

(***************************************************************************)
(* The next release of the site: the page an edition has in its snapshot   *)
(* (buildCompileSnapshot), and what the compiler asks of a redirect.       *)
(***************************************************************************)
\* readSnapshotVersions: while a published edition is edited its published version is
\* shown; an archived edition, or one whose row is pending while it is edited, is not.
Shown(e) == /\ Member(e) /\ status[e] # "archived"
            /\ status[e] = "draft" => row[e] = "published"

\* The records whose path its page may have, as the query orders nothing: the fallback
\* to the published version takes an active one.
Pages(e) == IF ~Shown(e) THEN {}
            ELSE IF status[e] = "draft" THEN In({"active"}, e) ELSE Live(e)

\* buildRouteIndex: a redirect that leads to no page makes the compilation fail.
Leads(r) == Pages(record[record[r].target].edition) = {record[r].target}

(***************************************************************************)
(* Properties.                                                             *)
(***************************************************************************)
Upset(e) == \E cause \in {"overtaken", "dropped", "revived"} : <<e, cause>> \in upset

\* edition-sites.ts:363, "a published row has an active URL": with one the page is in the
\* snapshot and the edition can be taken down, however renamings overtook it.
PublishedKeepsAddress ==
  \A e \in Editions : row[e] = "published" /\ <<e, "revived">> \notin upset
    => In({"active"}, e) # {}

\* An edition that was not upset has one address at most; taken down it answers at none,
\* and no redirect of a former one outlives its assignment.
OneAddressWhileAssigned ==
  \A e \in Editions : ~Upset(e) =>
    /\ Cardinality(Live(e)) <= 1
    /\ row[e] \in {"absent", "unpublished"} => In({"active", "redirected"}, e) = {}

\* Every redirect leads to the page of its edition, so that the site compiles,
\* save for an edition that was archived, or is edited again before its compiled release
\* is registered.
Hidden(e) == status[e] = "archived" \/ (status[e] = "draft" /\ row[e] = "pending")

RedirectsLeadToPages ==
  \A r \in Present :
    record[r].state = "redirected" /\ ~Upset(record[r].edition) /\ ~Hidden(record[r].edition)
      => Leads(r)

\* Assignments, addresses and redirects agree.
AddressesAgree == PublishedKeepsAddress /\ OneAddressWhileAssigned /\ RedirectsLeadToPages
===============================================================================
