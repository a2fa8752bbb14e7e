----------------------------- MODULE EntityLists -----------------------------
(***************************************************************************)
(* The lists of the home page and the ledger reads behind them, while      *)
(* checks and elections are created.  A page of checks takes two reads at  *)
(* different moments, the count and then the entries; the list of          *)
(* elections joins two reads that run side by side, one of them at a       *)
(* single state version.  The list of proposals works as that of the       *)
(* checks.                                                                 *)
(***************************************************************************)
EXTENDS Unread, Integers, Sequences, SequencesExt, Sorting

CONSTANTS
  ItemsPerPage,
  MaxChecks,    \* bound: checks on the ledger
  MaxReads      \* bound: reads begun

ASSUME ListAssumption == ItemsPerPage \in Nat \ {0} /\ MaxChecks \in Nat

VARIABLES
  checks,       \* the ledger: what each check leads to, "Proposal" or "Election"
  listing,      \* the list of checks shown: [page, order, count, items]
  paging,       \* a page being read: [page, order, count], or None
  joining,      \* elections being read: [begun, elections, counted, checks], or None
  electionList, \* the elections shown and when they were asked for, or None
  reads

listVars == <<checks, listing, paging, joining, electionList, reads>>

Orders == {"asc", "desc"}
Lower(a, b) == IF a < b THEN a ELSE b
Higher(a, b) == IF a > b THEN a ELSE b

\* Ids count from 0.
Ids(n) == 0 .. n - 1

\* The ids of the checks that lead to an election, in the order of the elections.
ElectionChecks(ledger) ==
  Filtered([i \in 1 .. Len(ledger) |-> i - 1], LAMBDA id : ledger[id + 1] = "Election")

ListInit ==
  /\ checks = <<>>
  /\ listing = [page |-> 1, order |-> "desc", count |-> 0, items |-> <<>>]
  /\ paging = None /\ joining = None /\ electionList = None
  /\ reads = 0

CreateCheck ==
  /\ Len(checks) < MaxChecks
  /\ \E kind \in {"Proposal", "Election"} : checks' = Append(checks, kind)
  /\ UNCHANGED <<listing, paging, joining, electionList, reads>>

-----------------------------------------------------------------------------
(* A page of checks *)

TotalPages(count) == (count + ItemsPerPage - 1) \div ItemsPerPage

\* The ids of a page: newest first, or oldest first.
PageIdsDescending(page, count) ==
  LET first == count - 1 - (page - 1) * ItemsPerPage
      last == Higher(first - ItemsPerPage + 1, 0)
  IN IF first < 0 THEN <<>> ELSE [i \in 1 .. first - last + 1 |-> first - i + 1]

PageIdsAscending(page, count) ==
  LET first == (page - 1) * ItemsPerPage
      last == Lower(first + ItemsPerPage - 1, count - 1)
  IN IF first >= count THEN <<>> ELSE [i \in 1 .. last - first + 1 |-> first + i - 1]

\* Mutant: the oldest entry of a page is the newest of the next.
PageIdsOverlapping(page, order, count) ==
  IF order = "desc" THEN PageIdsDescending(page, count)
  ELSE PageIdsAscending(page, count) \o
         (IF page * ItemsPerPage < count THEN <<page * ItemsPerPage>> ELSE <<>>)

PageIds(page, order, count) ==
  IF order = "desc" THEN PageIdsDescending(page, count) ELSE PageIdsAscending(page, count)

\* The entries that the ledger holds for some ids; the Gateway leaves the others out.
KnownEntries(ids, ledger) == Filtered(ids, LAMBDA id : id \in Ids(Len(ledger)))

\* An entry takes the id that was asked for at its place.
Labelled(ids, entries) ==
  [i \in 1 .. Len(entries) |-> [label |-> ids[i], check |-> entries[i]]]

\* The links under a list.
PageLinks(current, pages) ==
  IF pages <= 7 THEN 1 .. pages
  ELSE {1, pages} \cup (Higher(2, current - 1) .. Lower(pages - 1, current + 1))

\* A page is chosen from the links below the last one; another order starts at page 1.
ChoosePage ==
  /\ reads < MaxReads /\ reads' = reads + 1
  /\ paging = None
  /\ \E order \in Orders, page \in {1} \cup PageLinks(listing.page, TotalPages(listing.count)) :
       /\ order # listing.order => page = 1
       /\ paging' = [page |-> page, order |-> order, count |-> Len(checks)]
  /\ UNCHANGED <<checks, listing, joining, electionList>>

\* Mutant: ids count from 1.
PageReadFromOne ==
  /\ paging # None
  /\ LET ids == PageIds(paging.page, paging.order, paging.count + 1) IN
     listing' = [page |-> paging.page, order |-> paging.order, count |-> paging.count,
              items |-> Labelled(ids, KnownEntries(ids, checks))]
  /\ paging' = None
  /\ UNCHANGED <<checks, joining, electionList, reads>>

PageRead ==
  /\ paging # None
  /\ LET ids == PageIds(paging.page, paging.order, paging.count) IN
     listing' = [page |-> paging.page, order |-> paging.order, count |-> paging.count,
              items |-> Labelled(ids, KnownEntries(ids, checks))]
  /\ paging' = None
  /\ UNCHANGED <<checks, joining, electionList, reads>>

-----------------------------------------------------------------------------
(* The elections *)

OpenElections ==
  /\ reads < MaxReads /\ reads' = reads + 1
  /\ joining = None
  /\ joining' = [begun |-> Len(checks), elections |-> None, counted |-> None, checks |-> None]
  /\ UNCHANGED <<checks, listing, paging, electionList>>

\* The registry and its counter are read at the state version that is current now.
ReadElections ==
  /\ joining # None /\ joining.elections = None
  /\ joining' = [joining EXCEPT !.elections = ElectionChecks(checks)]
  /\ UNCHANGED <<checks, listing, paging, electionList, reads>>

\* The checks are read without one: their number first, and unless it is 0 all of them.
CountChecks ==
  /\ joining # None /\ joining.counted = None
  /\ joining' = [joining EXCEPT !.counted = Len(checks),
                                !.checks = IF checks = <<>> THEN <<>> ELSE None]
  /\ UNCHANGED <<checks, listing, paging, electionList, reads>>

ReadChecks ==
  /\ joining # None /\ joining.counted # None /\ joining.checks = None
  /\ joining' = [joining EXCEPT !.checks = checks]
  /\ UNCHANGED <<checks, listing, paging, electionList, reads>>

\* An election whose check is missing, or leads elsewhere, is left out.
\* Mutant: an election is joined with the check of its own number.
JoinedByNumber(elections, known) ==
  Filtered(elections, LAMBDA id : \E n \in 1 .. Len(elections) :
    elections[n] = id /\ n <= Len(known) /\ known[n] = "Election")

Joined(elections, known) ==
  Filtered(elections, LAMBDA id : id < Len(known) /\ known[id + 1] = "Election")

Join ==
  /\ joining # None /\ joining.elections # None /\ joining.checks # None
  /\ electionList' = [begun |-> joining.begun,
                      ids |-> Joined(joining.elections, joining.checks)]
  /\ joining' = None
  /\ UNCHANGED <<checks, listing, paging, reads>>

ListNext ==
  \/ CreateCheck \/ ChoosePage \/ PageRead
  \/ OpenElections \/ ReadElections \/ CountChecks \/ ReadChecks \/ Join

ListSpec == ListInit /\ [][ListNext]_listVars

-----------------------------------------------------------------------------
(* Properties *)

\* A card links to the check it shows, although a check may be created between the read
\* of the count and that of the entries and moves every check to another place.
EntriesKeepTheirIds == \A i \in DOMAIN listing.items : listing.items[i].label = listing.items[i].check

\* For whatever number of checks was counted, the pages show each check once, in the order
\* of the list: a page is what comes next of it, none is empty, and none is past its end.
PagesPartition ==
  \A order \in Orders :
    LET count == Len(checks)
        whole == [i \in 1 .. count |-> IF order = "asc" THEN i - 1 ELSE count - i]
        Upto(p) == Lower(p * ItemsPerPage, count)
    IN  /\ \A p \in 1 .. TotalPages(count) :
             /\ PageIds(p, order, count) = SubSeq(whole, Upto(p - 1) + 1, Upto(p))
             /\ PageIds(p, order, count) # <<>>
        /\ Upto(TotalPages(count)) = count
        /\ PageIds(TotalPages(count) + 1, order, count) = <<>>

\* An election that existed before the list was asked for is never missing from it; only
\* one created while the two reads ran may be.
SettledElectionsAreListed ==
  electionList # None =>
    \A id \in Ids(electionList.begun) :
      checks[id + 1] = "Election" => id \in ToSet(electionList.ids)

\* Lists show what the ledger holds, all of it, once and under the ids it is held by.
ListsAreFaithful == EntriesKeepTheirIds /\ PagesPartition /\ SettledElectionsAreListed
=============================================================================
