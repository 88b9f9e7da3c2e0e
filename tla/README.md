# A TLA+ verification of library-gcc

library-gcc is a small lending library written in C++ (`src/library`, with its
tests in `src/libraryTest`): branches keep holdings (copies of classified
books and films), patrons borrow and return them and are fined when they are
late, scanners at the desks drive all that, and a few utilities report on it.
The rest of the repository is vendored (`boost`, `googletest`, `ftplibpp`) or
solutions of exercises (`sln`).

The library itself runs in one thread; only `VoteEngine` and `Account` are called
from several, by tests that are disabled. What makes it hard is not so much parallel
execution as
* stores written one after the other by one call, which may throw or run past
  the end of a vector between the two writes;
* searches that answer by less than the whole key (a title for a copy, the first
  of several equal entries, a text for a number);
* calls that check nothing and leave the checks to callers, and callers (several
  scanners, interleaved scan by scan; clerks who write back the patron they found
  earlier) that remember what they saw before;
* files and transfers whose failures nobody looks at.

## 1. The parts of the system

| Part | State | Operations | What makes it correct |
|---|---|---|---|
| `HoldingService` | none of its own; shares the stores below | addAtBranch, transfer (by bar code, by object), checkOut, checkIn, deleteAll | catalogue and patrons agree; the borrower, and nobody else, loses a loan and pays |
| `Catalog` | static vector of holdings | add, update, findByBarCode, contains, deleteAll | a copy has one entry that counts |
| `Holding`, bar codes | copy, branch, day last lent | parse, transfer, checkOut, checkIn, dueDate | a bar code names one copy; a copy out is dated |
| `PatronService`, `PatronAccess`, `Patron` | static vector of patrons: card, holdings, balance | add, find, update, deleteAll; borrow, returnHolding, addFine, remit | no loan or fine is lost |
| `ClassificationService`, `Book` | table of four titles | retrieveDetails | every title catalogued is listed |
| `BranchService`, `BranchAccess`, `Branch` | static map of branches by id | add (with or without an id), find, existsWithName | ids are unique and none is that of `CHECKED_OUT` |
| `Persistence` | the map under BranchAccess; a file version that is a stub | add, get, matches, clear | what is added is found |
| `Scanner` and its states | per scanner: state, branch id, patron id | scan, pressDone | a loan goes to the patron of the session, a return to the desk's branch |
| `TimestampSource` | static queue of days | now, queueNextTime, clearQueue | a queued day is used once |
| `VectorReader/Writer`, `StreamLineReader` | a file of lines | load, writeAll | what is written is read back; a load ends |
| `FileReport` | local.txt, name, text | ftpGet, load | a report is of one version of the file on the server |
| `InventoryReport`, `ReportUtil` | none; reads the catalogue | generate | how it ends depends on the catalogue alone |
| `ReportMailer`, `Transport`, `EndpointValidator` | destinations | constructor, MailReport | all destinations or none |
| `VoteEngine`, `Account` | counts, a balance | accept, deposit | no vote or deposit is lost |
| `Customer`, `Rental`, `Movie` | rentals, prices of movies | add, statement, setPriceCode | statements of the same rentals do not differ |

A scanner calls HoldingService (`existsWithBarcode`, `isAvailable`, `checkOut`,
`checkIn`, `addAtBranch`) and TimestampSource. HoldingService calls Catalog,
PatronService and BranchService; all instances share the static stores, and so do
clients that call PatronService themselves and InventoryReport. Branches are what
the line files hold in the tests. Nothing calls back.

## 2. The modules

| Module | What it is |
|---|---|
| `LibraryData` | the values: bar codes, holdings, patrons, lending terms |
| `HoldingService` | the service over the catalogue and the patrons; every call of any client in any order |
| `Lending` | abstract specification: members, shelf, loans |
| `LendingDesk` | HoldingService under the rules a careful client must follow; implements `Lending` |
| `LendingTill` | abstract specification: `Lending` with members who pay |
| `Cashier` | clerks who find a patron, remit and update, beside a careful desk; implements `LendingTill` |
| `InventoryReport` | how `generate` ends for the catalogue there is |
| `LendingClaims` | what the comments in `checkIn` say |
| `TimestampSource` | the clock and its queue |
| `Scanner` | any number of scanners over one HoldingService and one clock; implements `HoldingService` |
| `ScannerClaims` | what the scanners' tests say |
| `BranchService` | branches over the map of `KeyedMemoryPersistence`, with given and generated ids |
| `BranchDirectory` | abstract specification: each branch opened by name has an id and a name of its own |
| `BranchOffice` | BranchService for clients that do not number ahead; implements `BranchDirectory` |
| `VoteEngine` | `accept` in several threads, with and without a lock of the callers' |
| `Account` | `deposit` in several threads, with and without a lock of the callers' |
| `TextFile` | lines, and what a writer that is stopped leaves of them |
| `LineFiles` | branches written to a file and read back |
| `FileReport` | reports fetched with FTP and loaded |
| `Customer` | rentals and statements |
| `HoldingServiceProofs`, `LendingDeskProofs`, `CashierProofs`, `ScannerProofs`, `BranchOfficeProofs`, `VoteEngineProofs`, `AccountProofs`, `SmallPartsProofs` | the theorems |
| `MC...` | constants and bounds for TLC; `MCThreads` and `MCSmallParts` put parts that share nothing side by side |

`LibraryData` is extended by `HoldingService` and `TimestampSource`; `LendingDesk`,
`Scanner` and `InventoryReport` extend `HoldingService`; `LendingDesk`
instantiates `Lending` with sets read off the two vectors, and `Cashier`, which
extends it, instantiates `LendingTill` with the same sets. `BranchOffice` extends
`BranchService` and instantiates `BranchDirectory` with its own variables.
`LineFiles` and `FileReport` extend `TextFile`. `VoteEngine`, `Account` and
`Customer` stand alone, as in the program.

### How the model follows the code

*One action is one call.* Calls run to their end, so `CheckOut` is the write of
the catalogue, the look-up of the patron and the write of the patrons, in the
order of the code; when the second part fails the first stays. A scan is one
action of `Scanner`, with the whole call it makes.

*Stores.* `catalog` and `patrons` are the two static vectors. A search stops at
the first equal element (`FirstCopy`, `FirstPatron`), `findByBarCode` compares
texts (`FoundByBarCode`), `update` writes over the first equal element, `add`
appends without looking. `outcome` is how the last call ended: `ok`, the
exception it threw, or `crashed`, after which there is no next step.

*Bar codes.* A text is abstracted to whether it has a colon, the classification
before it, the number `atoi` reads after it, and whether the text is the plain
decimal form of that number. `ToCopyNumber` is the assignment to `unsigned
short`, modulo 65536. Thus `trial:65537` is read as copy 1 but is not the text
of any copy, and `contains` and `findByBarCode` disagree on it.

*Branches and titles.* A branch is its id, since `Branch::operator==` compares
only ids and every call ignores the result of the branch look-up. The id of
`Branch::CHECKED_OUT`, 99 in the code, is one a client may pass like any other, and
`BranchService` gives it to a branch by itself, the 99th: a copy filed there counts as
out though nobody has it. `HoldingService` allows it in every call. A title is its
classification and its type; those `retrieveDetails` does not list are
`unlisted` and make `dueDate` throw. `not_a_date_time` is `NoDate`; a holding
never lent is never late. The condition of a holding and the names of patrons
and branches are left out, as nothing there depends on them.

*The branch map.* In `BranchService` the map is a function from ids to names, because
`existsWithName` searches by name and addresses are only carried along. An id is a
number when its text spells one, as generated ids do, and otherwise a value of
its own. `issued` records the ids `add(name)` returned; `refused` the name the last
call was refused for. Neither is read by an action.

*Votes.* `accept` reads `_counts[id]` into a local and writes the sum back: `Read` and
`Write` are steps of their own, and `operator[]` of a message not seen before is
two (`BeginInsert`, `EndInsert`). The tests' threads repeat one vote each, `Its`
times. `locked` says whether the callers bring a lock of their own; it never changes.
`ups` and `downs` count the votes written.

*Deposits.* `deposit` reads the balance for the sum (`ReadBalance`), reads it again
for the log as `push_back` begins (`BeginLog`), ends that (`EndLog`) and writes the sum
(`WriteBalance`); a log entry is the pair of the balances. `slot` is the size of the log
when a thread began to append, `overlapped` whether another appended while it did.
`guarded` is the callers' lock, `deposited` the sum of the deposits written, `blurred`
whether the deposit that wrote the balance had overlapped; no step reads the last two.

*Clerks.* `own` is the `Patron` object of each clerk in `Cashier`: `Find` copies the record
into it, `TakePayment` remits from it, `Update` writes all of it over the record of
its card. `found` and `remitted` remember what he found and took since; only the
clerk's duty `Fresh` reads `found`.

*The inventory report* goes through the catalogue in order and stops at the first title
that is not listed, or at the first book, for whose ISBN it asks a stub that
always throws. `Report` is how `generate` ends; it changes nothing.

*Files.* A file is a sequence of lines. A line knows its text and whether it is only a
part of what was to be written (`part`); such a part is taken to differ from every
whole line. A field of a branch is one line, or more if it has line breaks.
`writeAll` empties the file when it opens it (`Opened`), writes one branch at a time, and
may be stopped anywhere in one (`StopWriting`, a full disk or the end of the program)
or not open the file at all (`OutputFails`); its caller sees no difference. Where the text
waits in the stream's buffer does not matter: what reaches the file is
a beginning of what was written. `load` reads three lines per branch while the stream is good,
and drops a branch without an id.

*Reports.* `ftpGet` ends with local.txt as it was, when it cannot be opened; emptied,
when the server has no robots.txt to give, because `FtpXfer` opens local.txt
before it asks; or with as much of the file as came. A failed
connection or log-in throws before anything changed. The server replaces its file by a
later version (`Publish`) between gets, not while one is transferred. The first
program of a history starts without local.txt; later ones (`Restart`) with the one there is.

*Rentals* copy the movie with its price code; amounts are counted in halves, and days
may be negative, as nothing checks them.

*Undefined behaviour* is a choice among outcomes:
* `findByBarCode` of a text that is not there copies `*end()`. An empty vector
  has a null `end()`: the program dies. Otherwise it dies or yields garbage, taken
  to be no catalogued bar code, so that the `update` that follows throws
  "holding not found".
* `PatronAccess::update` of a card that is not there assigns to `*end()`: with an
  empty vector the program dies, otherwise it dies or the record is lost.
* `ScannerStateWaiting::scanBranchCard` goes on in an object that `setState` has
  deleted: the freed memory still leads to the scanner and the branch is set, or
  leads elsewhere and the branch is not set, or the program dies (`ended`).
* The matcher of `existsWithName` returns nothing for an entry of another name. What
  `find_if` sees there is up to the build: gcc gives false without optimisation
  and true with it. `MayAnswer` allows both wherever an entry does not match.
* A thread in the map of votes while another inserts may miss the message, or find the map
  broken (`broken`), after which nothing is said.
* Of two threads that append to the log of an `Account` at once, one may put its entry in
  the place of the other's, or have its own replaced, or write back an end of the vector that
  drops later entries (`ShareSlot`); both go on to write their balances. Or the vector's
  memory is `torn`, after which nothing is said.

*Whose actions.* Client actions of `HoldingService` are the calls of the public
interface with any arguments from the model's sets. In `LendingDesk` the guards
added to those calls are the client's duties, not the code's, and are listed in
the module's header; `today` is the calendar the desk reads the day of each call
from, which may be set to any day between calls. One duty is never to name a branch with
the id of `CHECKED_OUT` (`DeskBranches`). In `Cashier` the one further duty is that
of `Update`: the record is as the clerk found it. In `Scanner` the only other
clients are one that registers patrons and one that queues days; a branch card's id
begins with B, so no scan files a copy at branch 99. In
`BranchOffice` the one duty is not to number ahead: an id given by a client is no
number, or at most the number of branches plus one.

The definitions called a *slip* in their comment are not used by any
specification. Each states a plausible mistake in the definition below it and
serves to see that a property notices that mistake.

## 3. What TLC checks

Twelve runs: seven that pass and five, of a few dozen to a few hundred states, that
show the disagreements of section 5.

| Run | Instance | Shows |
|---|---|---|
| `holding_service` | a branch and the id of `CHECKED_OUT`; one listed title with two copies, one unlisted; five bar codes (one wraps to copy 1, one has no colon); two cards, one of them `p0`; days 0 and 22; at most 2 entries, 2 patrons, 2 in all of loans, fined patrons and copies out since no day | what survives any use of the service |
| `lending_desk` | a book with two copies, a movie; two branches; two cards; days 0, 21, 22; fines to 10 | a careful desk gets what `Lending` promises |
| `cashier` | two clerks, a copy of a book, two patrons; days 0 and 22; payments of 10; balances between -10 and 10, at most 10 remitted before an update | what clerks who write whole records back may do beside the desk |
| `scanners` | two scanners, a branch card, two patron cards, the inventory card, an unknown code, three bar codes; two copies; days 0 and 22, a queue of one; at most 3 entries, patrons and queued days together | what the scanners add to the service |
| `branch_office` | three names; ids given: 1, 2, 3 and one that is no number; at most 4 branches | generated ids are safe with clients that do not number ahead |
| `threads` | four voters of two votes (two vote one message up, two another up and down), or three depositors, of 1 twice, 2 twice and 4 once; with and without a lock | what races can and cannot do to counts, a balance and its log |
| `small_parts` | vectors of none, two and three branches, one with an empty name, one without an id, one with a line break, saved up to three times; four versions of a report, one empty; two movies, four price codes, up to three rentals of -1, 2 or 3 days | files, reports and statements |
| `wrong_borrower`, `flat_fine`, `holding_as_patron`, `generated_ids`, `refused_names` | small | section 5 |

`holding_service` (any client):
* `ShadowsInert`, `ShadowPatronsInert`: a copy catalogued twice, or a card
  registered twice, lives in its first entry only. Nothing is ever recorded where
  no search finds it.
* `LoansDated`: what a patron holds was lent on a day, is checked out in his copy
  of it, and is held once.
* `OutUndatedByName`: a catalogued copy comes to be out without the day it was lent
  only in a call about that copy which names branch 99; duplicates, transfers of stale
  objects and calls that fail half-way never do it.
* `LoanEndsInReturn`: a patron stops holding a copy only in a return of that very
  copy, which files it at the branch of the return. `LoanStartsInCatalog`: he starts
  only with the catalogue saying the same. `FinedForTitleHeld`: his balance changes
  only in a return of a copy of a title he holds, by the fine of that title. The
  first and the last except the card `p0`, whose record `checkIn` overwrites when it
  finds no borrower. A return at branch 99 is one too: the loan ends, and the copy counts
  as out.
* `ThrowFootprint`: what a call that throws has done.
* `ReportStaysBroken`: one entry the inventory report cannot list ends every later
  report in the same way, until the catalogue is emptied.

`lending_desk` (a careful client): `NoFailure` (no exception, no run past the end),
`Custody` (the stores agree on every copy that is out, and since when), and
`KeepsPromises`, the refinement of `Lending`: a return ends the loan of the patron
who has the copy, and fines him what is due for the day of lending and the day of
the return.

`cashier`: `Custody` again, now that clerks write loans back with
the balance; `KeepsAccounts`, the refinement of `LendingTill`: a payment changes one
account by what was paid, and no loan, return, fine or payment between a clerk's
find and his update is undone by it.

`scanners`: `OutSinceADay` (every catalogued copy that is out has the day it was lent: what
`holding_service` says only of calls that do not name branch 99), `LendsFromShelf` (only what is on a shelf is lent, whatever other desks
do), `LentInSession` (to a patron whose session is open, on the clock's day, using
up one queued day), `ShelvedAtDesk` (copies come to shelves only at a desk taking
returns or stock, at its branch), `SessionKept` (no scan anywhere changes whom a
lending desk lends to).

`branch_office`: `GeneratesUniqueId` (no two adds of a name get one id),
`NumbersWithinSize` (no number in use as an id is beyond the number of branches, which is why
the next generated id is free), `KeepsDirectory`, the refinement of
`BranchDirectory`: a branch opened by name takes nobody's place and has nobody's name,
whichever way the matcher answers.

`threads`:
* `WithinVotes` (a count lies between minus the votes down and the votes up
  written: votes get lost but none counts twice), `VotesShow` (a message only voted up
  has votes to show whenever nobody is voting on it, even if two threads inserted it
  at once), `LockKeepsVotes` (a lock around `accept` is all it takes).
* `WithinDeposits` (the balance never shows money nobody brought, nor nothing once
  somebody did), `BalanceLogged` (a balance shown is in the log, however reads and writes
  raced, unless the deposit that wrote it was in `log` at the same time as another),
  `LockKeepsDeposits`
  (with a lock the balance is the sum and each log entry begins where the last ended).
* `AllVoted`, `AllDeposited`: the threads come to an end and can be joined, unless the
  race broke the map or the log.

`small_parts`:
* `LoadsWhatWasWritten`: a load returns the branches last written, in order, without
  those that have no id and, if the writer was stopped, without the last ones; at
  most the last one loaded is in part. Branches with line breaks are excepted: they
  are read back as others.
* `LoadEnds`: the loop ends whatever is in the file and if there is none.
* `OneVersion`: however many gets failed, were cut or were left by a program that
  ended, a report is the beginning of one version the server had, or empty.
* `StatementStands`: a rental costs what it cost the day it was made, whatever
  becomes of the movie's price.

*Bounds.* Two entries are enough for a duplicate, for two copies of a title and
for a listed next to an unlisted one; two records for a duplicate card, for two
borrowers, and for the default card next to another. The wrap of copy numbers is
in the bar codes, not in the number of copies. Days are chosen at the boundary
of the lending period (21 is due, 22 is late). Three of loans, fined patrons
and copies out without a day together are cut off in `holding_service` because loans already
interact in pairs, and nothing is continued after a call that refused its bar code, since it
changed nothing (`ThrowFootprint`, checked of that very step); the theorems below have no bounds. Two clerks on one patron are enough for one to write over
what the other did, and the desk is there to lend and fine in between. Four branches let an id
that is no number, ids in and out of order and a generated one meet. Two votes or
deposits per thread let a thread come back after its first write has been overwritten;
the second pair of voters inserts a second message into the map while the first is in
use, and the amounts differ so that a lost deposit shows. Three saves let a whole file,
a stopped and a failed save follow each other, and the vectors differ in length, so that a
short save after a long one would show what it leaves. Four versions let local.txt be
two behind. Most bounds are state constraints: a state beyond them is checked but not
continued. `Its`, `Deposits`, `Saves` and `MaxRentals` are constants of their modules
because they end threads and histories; so are the numbers in the tests.

*Symmetry.* The branches of `lending_desk`, the clerks of `cashier`, the scanners of
`scanners` and the names of `branch_office` are interchangeable; nothing temporal beyond
`[][A]_v` is checked there, and the runs with liveness have no symmetry.

*Deadlock.* In `holding_service` and `scanners` a crash ends the program, so
deadlock is not checked there; in all other passing runs it is
(`Ended` in `VoteEngine` and `Joined` in `Account` are the end of all threads, or of the
map or the log).

*Fairness.* No client has to call, and no desk or server has to do anything, so their
specifications have none. Two parts run by themselves. The threads that vote and deposit are
run by a preemptive scheduler and wait for nothing without the lock; weak fairness of
each thread (`VotersRun`, `DepositorsRun`) says only that a thread which can step
does. With the lock a thread outside may be overtaken, but each has finitely many calls to
make, so the others run out and weak fairness remains enough. `load` is a loop that
nothing suspends (`LoaderRuns`).

## 4. What is proved

For every value of the constants (under the named assumptions: every
classification has a type, days are
naturals, texts and codes are of their types, the ids of branch cards
are branches, not that of `CHECKED_OUT`, as they begin with B, those of patron cards are
cards, payments are naturals, each thread has a vote to cast or positive
amounts to deposit, the versions of a report are sequences of whole lines, the vectors saved
are sequences of branches whose fields are one whole line or more, and rentals are for whole
numbers of days, negative ones included):

* `HoldingServiceProofs`. The inductive invariant `IInv` is the conjunction of
  `TypeOK`, `ShadowsInert`, `ShadowPatronsInert` and `LoansDated`.
  None of the last three stands without the others' company: a write that stops at
  the first entry leaves duplicates alone only because they are what `add` made,
  and patrons' loans are dated because `checkOut` dates the entry it copies. The
  calls are first reduced to a few ways of changing each store (`CatalogStep`,
  `PatronStep`), and the invariants are preserved by each. The action properties follow
  from the invariants by call: `checkIn` takes the last patron with the title and
  `update` writes the first of his card, which are the same record because later records
  of a card hold nothing (`ShadowPatronsInert`). `OutUndatedByName` follows
  because a call that writes the catalogue either lends one copy out, and dates it, or files one at
  the branch the client named (`LendsOut`, `FilesAt`). `ReportStaysBroken` follows because entries
  keep their places and copies (`StepsKeepCopies`).
* `LendingDeskProofs`. `DeskInv` adds to `IInv` that no call failed, one entry per copy
  and card, `Custody`, and `OneOfTitleOut`: with at most one copy of a title out,
  the search by title finds the right patron. From it follow `NoFailure`, `Custody`
  and the refinement `DeskSpec => Lending`, step by step.
* `CashierProofs`. `TillInv` adds to `DeskInv` what a clerk's object is: the record he
  found, less what he remitted since (`Accounted`). With his duty, that the record found is
  the one stored, an update is a payment (`PayStep`), which moves no loan; so `DeskInv`
  stands (so no call fails here either, which no run repeats) and `CashierSpec => KeepsAccounts`
  follows.
* `ScannerProofs`. Every step of the scanners is a step of `HoldingService` or
  none, once it is known that a scanner that lends has a patron's card
  (`Equipped`): `FloorSpec => Spec`. All theorems on `HoldingService` therefore hold
  of any number of scanners. That no scanner has branch 99 (`AtBranch`) gives `OutSinceADay`.
  Then `SessionKept`, by cases on what is scanned,
  `LendsFromShelf` and `LentInSession`, which need `ShadowPatronsInert` for the record
  `checkIn` writes, and `ShelvedAtDesk`. `ServicePromisesOnFloor` draws the conclusion for what
  `HoldingService` promises; `OtherTextsReadPastEnd` says with which texts a scanner reads past
  the end of the catalogue: those that are read as a copy in it but are not the plain
  form of a number from 0 to 65535.
* `BranchOfficeProofs`. `OfficeInv` adds to `TypeOK` and `GeneratesUniqueId` that
  numbers stay within the size (`NumbersWithinSize`), so that the next id is new in the map, and
  that what was issued is still in the map (`IssuedListed`), so that it is new among the ids
  returned. Each add is shown to grow the set of ids by one or by none. `OfficeKeepsDirectory`
  follows, and `CheckedOutStaysFree`: no branch gets the id 99 before there are 99.
* `VoteEngineProofs`. For `WithinVotes` the invariant also bounds what a
  thread in `read` remembers (`ReadsWithin`): a count that was within the votes written stays
  so, since these only grow. `VotesShow` needs that such a message has no votes down
  (`NoneDown`), so that no thread remembers less than nothing.
  With the lock, `Serial`: at most one thread is in `accept`, and what it remembers
  is the count.
* `AccountProofs`. `AuditInv` says of what a thread is about to write what
  `WithinDeposits` and `BalanceLogged` say of the balance (`SumsWithin`, `SumsLogged`). An
  entry once logged without an overlap stays, since it stands before the `slot` of every thread
  that appends (`Audited`), and a thread that overlaps nobody leaves none appending
  (`OverlapsKnown`).
  With the lock, `OneAtATime`: one thread is in `deposit`, what it remembers is the
  balance, and the log ends with it or with the one about to be written.
* `SmallPartsProofs`. For reports, `VersionInv`: local.txt and the report are each the beginning
  of a version once served, or empty; versions once served stay among those served.

  What `load` keeps (`KeptAmong`) and what a statement adds up (`Sums`) are loops, written as recursive
  functions. That such a function computes what its definition says is itself to be
  shown: a table of its first turns exists, since one of n turns can be made one of n + 1
  (`OneMoreTurn`, `LoopExists`), it computes what it should (`LoopComputes`), and there is only one
  (`LoopsAgree`). All of these go from 0 to n by `CountingUp`, which is proved from the well-foundedness
  of < on the naturals by taking the least number for which it would fail.

  For statements, `CustomerInv`: the rentals are of their types, and the sum of what they cost
  on their days is the sum the loop makes of them. One more rental is one more turn; the turns
  before are the same (`LoopsAgree`), and a new price of a movie is in none of them, as rentals
  have copies.

  For files, `FilesTypes` and then `FilesInv`, about branches without line breaks: there is a k
  such that the file holds the first k branches written, and if its writer was stopped at most
  the beginning of the next (`Saved`); and a load that has read r of them has kept
  what `KeptAmong` keeps of the first r (`Loading`), or, at the end, of k and one in part.
  `LoadsWhatWasWritten` speaks of loads that are over, and so is not inductive: it needs to know
  what is left in the file and in the loop before. `KeptGrows` says that what was kept
  of fewer branches is the beginning of what is kept of more; with it `LoadsWhatWasWritten` follows.

Half of why the threads and the loop of `load` end is proved as well: each step of a
thread in `accept` or `deposit` uses up one of finitely many of its own and none of
another's (`VotersRunOut`, `DepositorsRunOut`), and each turn of `load` reads lines or is the
last (`LoadsRunOut`). So no thread is ever made to start over by another.

So every safety property of all passing runs is proved: each invariant, each property
of the form `[][A]_v`, and the three refinements.

Only model-checked: the liveness properties `AllVoted`, `AllDeposited` and `LoadEnds`. Their other half,
that a thread which can step does, is a matter of fairness and `ENABLED`, which are out of the
prover's reach; there is also no induction principle for data to cite (the library's take an operator
as a parameter), which is why the loops above count with `CountingUp`.

*A caution.* The encoding of sequences that tlapm 1.4.5 gives its SMT solver takes any function
to have the domain `1..Len(f)`. With `Len` and a function on `0..n` in one leaf that is a contradiction,
and proves anything. Leaves about tables on `0..n` therefore have no `Len` and no `Seq` in them: what they
need of sequences comes from a lemma with constant parameters, or the definition is
hidden, or the leaf is Zenon's. All SMT obligations of the eight modules have also been proved with
that axiom cut down to its sound direction.

## 5. Where code and words disagree

* `wrong_borrower`: `checkIn` says it locates "the patron with the checked out
  book". It takes the last patron who holds any copy of the title.
  `LendingDesk` shows the rule under which this does no harm (one copy of a title
  out at a time) and the run shows the harm when two are.
* `flat_fine`: the days past due are said to be calculated; they are the
  constant 1.
* `holding_as_patron`: two of the four listed titles have classifications that
  begin with P, and `Scanner::scan` takes their bar codes for patron cards.
* `generated_ids`: a test says adds of names generate unique ids. The generated id is the size
  of the map plus one; a client that gave its branch the id 2 while it was the first makes
  the next two adds of names both get 2, and the second replaces the first.
* `refused_names`: `DuplicateBranchNameException` is thrown for names no branch has, where the
  matcher's missing return is taken for true. This is what gcc builds with optimisation.

## 6. Not modelled

* `ReportMailer` and what it uses: nothing of it can run. `EndpointValidator::isValid`
  answers false to every address and an empty list of destinations throws, so the
  constructor always throws; `Transport::send` throws whatever it is given.
* `KeyedFilePersistence`: a stub that stores nothing. `KeyedMemoryPersistence::findAllMatching`
  and `StreamLineReader`'s read of a number: nothing in the library calls them.
* `Soundex`, `NameNormalizer`: empty exercises. `trim` is called by nothing; of `split`,
  only what `HoldingBarcode` and `Holding` make of a bar code is modelled.
* The layout of reports, statements and displays; the names of patrons and the names and
  addresses of branches in holdings; the condition of a holding. No state depends on them.
* `StockService`, `CreditVerifier`, `NCC1701ADisplay`: interfaces without an implementation.
* Vendored code (`boost`, `googletest`, `ftplibpp`, except how a get of `ftplibpp` treats
  the local file), and the solutions of exercises (`sln`).

What is left of the library's own behaviour is read-only look-ups. The result of the branch
look-up in `addAtBranch` and `transfer` is ignored by the code
(`src/library/HoldingService.cpp:47`); since nothing compares more of a branch than
its id, no property says anything about it.
