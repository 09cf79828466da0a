------------------------------- MODULE Paging -------------------------------
(***************************************************************************)
(* Reading whole collections page by page while others add, remove and     *)
(* move rows.                                                              *)
(*                                                                         *)
(* "jamf":  jamfSource.ListDevices (internal/app/build.go) lists computers *)
(*   and then mobile devices, each by page number in the order of the IDs, *)
(*   and checks every page with validatePage (provider/jamf/inventory.go). *)
(* "snipe": listAssets (provider/snipe/snapshot.go) lists the hardware in  *)
(*   use and then, in any order, each status that the catalog read before  *)
(*   calls archived, all by offset (getAll in provider/snipe/client.go).   *)
(* "graph": ListIntuneDevices, and the loops over delta and group pages    *)
(*   (provider/microsoft), follow the next link of each page.              *)
(***************************************************************************)
EXTENDS Integers, FiniteSets, Sequences, Bags, Functions

CONSTANTS Keys,           \* row IDs, integers in the order of the server's list
          InitRows,       \* the rows at the start
          Serials,        \* the ways serial numbers may be given to rows
          Blank,          \* no serial number
          PageSize,       \* rows asked for per request
          MaxChanges      \* bound: rows added, removed and moved

ASSUME RowAssumption == Keys \subseteq Nat \ {0} /\ InitRows \subseteq Keys /\ IsFiniteSet(InitRows)
ASSUME SerialAssumption == \A serial \in Serials : DOMAIN serial = Keys
ASSUME SizeAssumption == PageSize \in Nat \ {0} /\ MaxChanges \in Nat

Unknown == -1
NoLink == -1

\* The parts of a collection.  A row with a status that became an archived one
\* after the catalog was read is "unlisted".
Archives == {"archive_a", "archive_b"}
PartsOf(provider) ==
  CASE provider = "jamf"  -> {"computers", "mobile"}
    [] provider = "snipe" -> {"in_use", "unlisted"} \cup Archives
    [] provider = "graph" -> {"managed"}

VARIABLES provider,
          serial,   \* the serial number of each row, or Blank
          rows,     \* the server: the part each row is in
          changes,  \* how many changes others have made
          pc,       \* "reading", "done", "failed", or "duplicated"
          listings, \* the parts to list, the current one first
          total,    \* the total of the first page of the listing, or Unknown
          count,    \* rows read in this listing, those seen before included
          next,     \* the link to follow
          seen,     \* the links followed, seenLinks
          got,      \* all rows read, a bag
          came,     \* history: rows came into the listing while it was read,
          went,     \*   went out of it,
          mixed,    \*   or both in one of the listings
          remained, \* history: rows that were in parts to list all the time
          steady,   \*   and did not move, or only out of use into an archive
          ever      \* history: rows that were there at some time

server  == <<provider, serial, rows, changes>>
listing == <<listings, total, count, next, seen>>
reader  == <<pc, listing, got>>
change  == <<came, went, mixed>>
history == <<change, remained, steady, ever>>
vars == <<server, reader, history>>

----------------------------------------------------------------------------
(* The server.                                                             *)

Here == Head(listings)
InListing == {key \in DOMAIN rows : rows[key] = Here}
Total == Cardinality(InListing)

\* Whether a change touches the listing after its first page was sent.
Noted(in, out) ==
  LET begun == pc = "reading" /\ (total # Unknown \/ seen # {}) IN
  /\ came' = (came \/ (begun /\ in))
  /\ went' = (went \/ (begun /\ out))
  /\ mixed' = (mixed \/ (came' /\ went'))

Changing == pc = "reading" /\ changes < MaxChanges

\* Jamf is asked to sort by ID, so that new rows come last; in the order of the
\* others they may come anywhere.
Add(key, part) ==
  /\ Changing
  /\ key \in Keys \ ever /\ (provider = "jamf" => \A other \in ever : key > other)
  /\ rows' = [other \in DOMAIN rows \cup {key} |-> IF other = key THEN part ELSE rows[other]]
  /\ changes' = changes + 1
  /\ ever' = ever \cup {key}
  /\ Noted(part = Here, FALSE)
  /\ UNCHANGED <<provider, serial, reader, remained, steady>>

Remove(key) ==
  /\ Changing /\ key \in DOMAIN rows
  /\ rows' = Restrict(rows, DOMAIN rows \ {key}) /\ changes' = changes + 1
  /\ remained' = remained \ {key} /\ steady' = steady \ {key}
  /\ Noted(FALSE, rows[key] = Here)
  /\ UNCHANGED <<provider, serial, reader, ever>>

\* Only Snipe's assets move: their status is changed.
Move(key, part) ==
  /\ Changing /\ provider = "snipe" /\ key \in DOMAIN rows /\ rows[key] # part
  /\ rows' = [rows EXCEPT ![key] = part] /\ changes' = changes + 1
  /\ steady' = IF rows[key] = "in_use" /\ part \in Archives THEN steady ELSE steady \ {key}
  /\ remained' = IF part = "unlisted" THEN remained \ {key} ELSE remained
  /\ Noted(part = Here, rows[key] = Here)
  /\ UNCHANGED <<provider, serial, reader, ever>>

Change ==
  \E key \in Keys :
    \/ Remove(key)
    \/ \E part \in PartsOf(provider) : Add(key, part) \/ Move(key, part)

----------------------------------------------------------------------------
(* Ending a listing.                                                       *)

\* Fault: the archived statuses are listed first.
Plans_ArchivesFirst(from) ==
  CASE from = "jamf"  -> {<<"computers", "mobile">>}
    [] from = "snipe" -> {<<"archive_a", "archive_b", "in_use">>, <<"archive_b", "archive_a", "in_use">>}
    [] from = "graph" -> {<<"managed">>}

\* The listings of a provider in the order they are read.  The archived
\* statuses come out of a Go map.
Plans(from) ==
  CASE from = "jamf"  -> {<<"computers", "mobile">>}
    [] from = "snipe" -> {<<"in_use", "archive_a", "archive_b">>, <<"in_use", "archive_b", "archive_a">>}
    [] from = "graph" -> {<<"managed">>}

\* Fault: a row sent twice is taken for two assets.
Duplicated_SameRow(all) ==
  /\ provider = "snipe"
  /\ \/ \E key \in BagToSet(all) : serial[key] # Blank /\ all[key] > 1
     \/ \E key, other \in BagToSet(all) :
          key # other /\ serial[key] = serial[other] /\ serial[key] # Blank

\* listAssets skips blank serials, drops rows with an ID it has seen, and then
\* refuses a serial it has seen.
Duplicated(all) ==
  /\ provider = "snipe"
  /\ \E key, other \in BagToSet(all) :
       key # other /\ serial[key] = serial[other] /\ serial[key] # Blank

\* The listing is complete: on to the next one, or done.
EndListing(all) ==
  /\ listings' = Tail(listings)
  /\ total' = Unknown /\ count' = 0 /\ next' = NoLink /\ seen' = {}
  /\ came' = FALSE /\ went' = FALSE
  /\ pc' = IF Tail(listings) # <<>> THEN "reading"
           ELSE IF Duplicated(all) THEN "duplicated" ELSE "done"

----------------------------------------------------------------------------
(* Reading by offset or page number: Jamf and Snipe.                       *)

\* The row at position n of the list, counted from 0.
Position(key) == Cardinality({other \in InListing : other < key})

\* What is sent for an offset: neighbouring rows, as many as asked for or as
\* there are.  Snipe may send fewer, and a server in trouble none at all.
PagesAt(offset) ==
  {{key \in InListing : Position(key) \in offset..(offset + size - 1)} :
     size \in IF provider = "snipe" THEN 0..PageSize ELSE {0, PageSize}}

\* validatePage and the checks of getAll, for a page sent with the number of
\* rows there are now.  The Jamf listings reject an ID they have seen.
Valid(keys) ==
  /\ Total >= count + Cardinality(keys)
  /\ total \in {Unknown, Total}
  /\ keys = {} => count = Total
  /\ provider = "jamf" => keys \cap BagToSet(got) = {}

\* Snipe is asked for an offset, the number of rows counted so far; Jamf for
\* page after page, which is the same where pages are never short.
Offset == count

\* The reader has counted everything.
Complete(keys) == count + Cardinality(keys) = Total

\* The next page arrives and is accepted.
ReadPage(keys) ==
  LET all == got (+) SetToBag(keys) IN
  /\ Valid(keys)
  /\ got' = all
  /\ IF Complete(keys)
     THEN EndListing(all)
     ELSE /\ total' = Total /\ count' = count + Cardinality(keys)
          /\ UNCHANGED <<pc, listings, next, seen, came, went>>
  /\ UNCHANGED <<server, mixed, remained, steady, ever>>

\* The next page arrives and is rejected.
Reject(keys) ==
  /\ ~Valid(keys)
  /\ pc' = "failed"
  /\ UNCHANGED <<server, listing, got, history>>

----------------------------------------------------------------------------
(* Reading by links: Graph.                                                *)

\* A link stands for the last row sent.  Graph sends one or more of the rows
\* behind it, with a link for the rest if there is one; out of order, it sends
\* a link again that was followed before.
PagesBehind(link) ==
  LET ahead == {key \in InListing : key > link}
      Rank(key) == Cardinality({other \in ahead : other <= key})
  IN {{key \in ahead : Rank(key) <= size} : size \in 1..PageSize}

LinksAfter(keys) ==
  LET rest == {key \in InListing : key > next} \ keys IN
  seen \cup IF rest = {} THEN {NoLink}
            ELSE {CHOOSE key \in keys : \A other \in keys : key >= other}

\* Fault: links are not remembered.
Repeated_Never(link) == FALSE

\* A link that was followed before ends the reading with an error.
Repeated(link) == link \in seen

\* The next page arrives; without a link it is the last one.
FollowLink(keys, link) ==
  LET all == got (+) SetToBag(keys) IN
  /\ ~Repeated(link)
  /\ got' = all
  /\ IF link = NoLink
     THEN EndListing(all)
     ELSE /\ next' = link /\ seen' = seen \cup {link}
          /\ UNCHANGED <<pc, listings, total, count, came, went>>
  /\ UNCHANGED <<server, mixed, remained, steady, ever>>

RejectLink(keys, link) ==
  /\ Repeated(link)
  /\ pc' = "failed"
  /\ UNCHANGED <<server, listing, got, history>>

----------------------------------------------------------------------------
\* A request fails, or a page cannot be decoded.
Fail ==
  /\ pc = "reading"
  /\ pc' = "failed"
  /\ UNCHANGED <<server, listing, got, history>>

Init ==
  /\ provider \in {"jamf", "snipe", "graph"} /\ serial \in Serials
  /\ rows \in [InitRows -> PartsOf(provider) \ {"unlisted"}] /\ changes = 0
  /\ listings \in Plans(provider)
  /\ pc = "reading" /\ total = Unknown /\ count = 0 /\ next = NoLink /\ seen = {} /\ got = EmptyBag
  /\ came = FALSE /\ went = FALSE /\ mixed = FALSE
  /\ remained = InitRows /\ steady = InitRows /\ ever = InitRows

Answered ==
  /\ pc = "reading"
  /\ \/ /\ provider # "graph"
        /\ \E keys \in PagesAt(Offset) : ReadPage(keys) \/ Reject(keys)
     \/ /\ provider = "graph"
        /\ \E keys \in PagesBehind(next) : \E link \in LinksAfter(keys) :
             FollowLink(keys, link) \/ RejectLink(keys, link)

Over == pc # "reading" /\ UNCHANGED vars

Next == Answered \/ Fail \/ Over \/ Change

\* Every request is answered, unless it fails.
Spec == Init /\ [][Next]_vars /\ WF_vars(Answered)

----------------------------------------------------------------------------
(* Properties.                                                             *)

\* A result handed to the planner lacks no row that was there all the time and
\* that at most was taken out of use into an archive, unless in one of the
\* listings by offset rows came as well as went while it was read.
NothingMissed ==
  pc = "done" /\ (provider = "graph" \/ ~mixed) => steady \subseteq BagToSet(got)

\* Two records with one serial.
Clash(keys) ==
  \E key, other \in keys : key # other /\ serial[key] = serial[other] /\ serial[key] # Blank

\* A serial that two of Snipe's assets have had all the time keeps the assets
\* from being planned with; and assets are never refused for it because one of
\* them moved, or was sent twice, while they were listed.
SerialsResolved ==
  /\ pc = "done" /\ provider = "snipe" /\ ~mixed => ~Clash(steady)
  /\ pc = "duplicated" => Clash(ever)

\* Reading ends, whatever comes back: each page brings it nearer to the total
\* or the last link, or fails it.
Ends == <>(pc # "reading")

\* "Intune, Jamf, and Snipe-IT remain complete bulk snapshots each cycle [...]
\* If any configured source fails or returns an incomplete page set, that
\* cycle performs no writes" (README:119).
SnapshotIsComplete == pc = "done" => remained \subseteq BagToSet(got)
=============================================================================
