# Verification of topy

topy is an in-memory server of user statistics: clients create users, add
events and marks to the fields of a user, and ask for tops, counts, reports and
contests over all the users or over sets of them. It keeps everything in memory
and dumps it into a file, on command or by itself. These TLA+ modules model the
server in `src/src/` and its PHP client in `src/topy-php/`: the parts where
threads, connections, dumps and clocks meet. TLC checks them on small
instances, and TLAPS proves the central ones for every instance.

## Inventory

One thread, the **event loop** (`event_dispatch`, topy.cc), reads every command
of every TCP client and UDP datagram and executes it: `parse_query` in
server.cc. A command that walks all the users is parsed by the event loop and
executed by a **detached thread** made for it (threads.cc, contest.cc,
contests.cc). The **AutoDump thread** dumps from time to time. A signal handler
dumps at termination. The threads share the following parts.

| part | state | operations | what is hard, what must hold |
|---|---|---|---|
| Users store (users.cc) | `hash_table`, `vector`, `vector_new_users`, a mutex for each vector | find, create, park, merge, select, scan, dump, restore | the event loop must never wait for a scan, and no user may be lost or listed twice because of that |
| User (user.cc) | fields, `deleted`, group; 1024 mutexes for all users | create, delete, undelete, clear, lock | the flag is read before the mutex; fields are freed while others hold the user |
| Users sets (users_sets.cc) | name to vector | select into, delete, list | a set is refilled while a scan walks it |
| Detached threads (threads.cc, client_thread.cc) | the job, the client, a hold on the timer | one `main()` per command | the client closes, the timer is held, the reply comes late |
| Autodump (autodump.cc) | enabled, target, delay, last dump, `_force` | wait, dump, force, set, enable | dumps beside the dump command; the dump at termination runs in a signal handler |
| Dump files (server.cc, dump_bin.cc, parser.cc) | `<path>.tmp`, `<path>` | write, rename, restore | crash, full disk, two dumps at once |
| Fields (field.cc, fields.cc) | sample vectors of 8, 16 or 32 bits, a date | add, insert, update (shift by elapsed periods), sum, score | shifting, widening, overflow, a clock that goes back |
| Groups (groups.cc, groups_interface.cc) | name to id and mask, `index_counter` | add, delete, clear, filter | id reuse, deletion against `group set` |
| Top, contests, reports (top.cc, contest.cc, contests.cc) | k best, ranked lists | add, finalize, generate, get, delete | top-k with lazy sorting; a contest freed under its threads |
| Timer (timer.cc) | `now`, hour, day, month, `lock_count` | refresh, lock, unlock | counter without mutex, time standing still |
| Clients (events.cc) | `opened`, `fd`, `ref_count` | open, receive, write, close, ref, unref | a reply against a close |
| Replication (replicator.cc, udp.cc) | a socket; on the slave, commands without a Client | add, read | loss, reordering; what a fault harms later; commands that end the slave |
| Filters (expr_bool.cc, filter.cc) | a stack of expressions | parse, eval | precedence, empty stack |
| PHP client (topy-php/php_topy.c) | a socket, the last transaction id | connect, query, read, try again | a late answer read for the next query |
| Statistics, log, configuration, serializer, string helpers, command line clients, munin | | | text and counters |

The mutexes are taken in this order: contests, the main vector, a set or the
copy of a dump, a user, groups and fields; `vector_new_users` is taken under
the main vector or alone. The hazards are listed, each at its line, in
`PROJECT.json`.

## Modules

| module | content |
|---|---|
| `UsersStore` | the users store and the life of a User, the event loop, the detached jobs and AutoDump |
| `Roster` | abstract: what a job that lists all the users promises |
| `UsersHistory` | `UsersStore` with history variables, and the mapping to `Roster` |
| `UsersStoreProofs` | theorems about `UsersStore` |
| `UsersHistoryProofs` | theorems about `UsersHistory`, and that it implements `Roster` (EXTENDS `UsersStoreProofs`) |
| `Autodump` | the AutoDump thread, dump commands, the dump at termination, the files they make, crashes and restarts |
| `DumpedFile` | abstract: the files autodump writes change from one whole dump to a newer one |
| `AutodumpProofs` | theorems about `Autodump` |
| `StatsVector` | vectors of samples: widths, the 8-bit count, translate, sum, widening, text and binary |
| `Timer` | the hour, day and month of the server, and the clock of the host |
| `Field` | the field types: events, marks, ulog, log, int, uint, timestamp |
| `Fields` | the table of fields, users with fields, commands, reports, dump and restore (EXTENDS `Field`, `Timer`) |
| `FieldsProofs` | theorems about `Fields` |
| `Filter` | the parser of filter expressions, against what the expressions mean |
| `Ranking` | tops and contests with their threads (EXTENDS `Filter`) |
| `Queries` | the event loop that parses a filter and starts the thread (EXTENDS `Ranking`) |
| `RankingProofs` | theorems about tops and contests in `Queries` |
| `ParserProofs` | theorems about the parser in `Queries` (EXTENDS `RankingProofs`) |
| `Groups` | groups, the users in them, the threads that delete them, dump and restore, and a slave |
| `GroupsProofs` | theorems about `Groups` |
| `Clients` | the server's end of the connections: Clients, their reference counts, answers |
| `Sessions` | the PHP client with such a server (EXTENDS `Clients`) |
| `SessionsProofs` | theorems about `Clients` and `Sessions` |
| `MCUsersStore`, `MCUsersHistory`, `MCAutodump`, `MCFields`, `MCQueries`, `MCGroups`, `MCSessions` | the small instances for TLC |

### UsersStore

The variables carry the names of the code where it has one: `hash` is
`hash_table`, `list[v]` and `owner[v]` the list and the mutex of the VectorUsers
`v` (`vector`, `vector_new_users`, the sets, and for each job the vector it owns:
`vector_copy` of a dump, `TopThread::set`), `userOwner` the `user_lock` table,
`deleted` and `fields` the state of each User. `pc`, `cur`, `job`, `arg` and
`pos` are the program counter, the user in hand, the command, the vector and the
iterator of each thread. An action is what a thread does from one point where
another thread may run to the next: taking a mutex, giving it back, or reading
or writing a shared variable without one.

* `UserFind`, `UserCreate`, `UserRevive`: `user` and `user*` up to the first
  mutex; `AddTrylock` .. `AddPark` are `user_add`, `LockUser` .. `UnlockUser` the
  command itself, `ClearInit` the `init()` of `User::clear`.
* `UpdateLock`, `UpdateMove`, `UpdateForget`: `vector_update`, for every caller.
* `Start` and `AutoStart` begin a job. The jobs are: `visit` (top, report, count,
  count_active, clear, rank: one loop over a vector that uses a field of each
  user), `cleanup` (a loop that also deletes), `walk` (groups delete and clear),
  `select`, `sets_clear` (the thread of sets delete) and `dump`.
* `SelectLock` .. `SelectUnlock` are `VectorUsers::select` and `select_all`;
  `Lock`, `ScanNext`, `Finish` are the loops, with `LockUser`, `Touch`,
  `DelFields`, `DumpCheck`, `UndelFields`, ... for each user.

Abstractions. What a field holds, the group of a user and the filter of a
command are left out: a filter or a date test is a choice (`Touch`,
`SelectFilter`). A freed field that is used goes on as if its memory had kept
its contents. A users set keeps its name after `sets delete`; since the
thread of the delete only empties the old vector and a new set starts empty,
a new set under the name is the same vector. `groups stats`, which only counts
groups, and the copy of a user list that `top ... set` makes of more than one
user are not modelled. The inner mutexes of fields, groups and statistics,
taken last and for a few instructions, are not modelled.

### Roster and UsersHistory

`Roster` says what a listing job promises: its list has no user twice, everybody
who was there from its start to its end, and nobody who was never there in
between. `UsersHistory` adds to `UsersStore` two variables no step of the code
reads, `always` and `ever`, and maps a dump to a job of `Roster`. A dump locks
`vector` for two short sections only (ChangeLog, 0.22), so this is not plain
from the code: between them, and while the copy is written, users come, are
deleted and come back.

### Autodump and DumpedFile

`Autodump` follows a dump from its cause to its file. `dataOwner` is
`AutoDumpData::mutex`, `dumpOwner` is `AutoDump::mutex`; `storeOwner` stands for
the mutexes of users and groups together, which a dump takes and gives back
piece by piece and a command holds while it runs (`UsersStore` has them one by
one). The actions `LockData` .. `Record` are `AutoDump::wait`, `main`, `force`
and `last_dump`; `LockDump` .. `UnlockDump` are `AutoDump::dump` and
`ServerTopy::dump`. The handler of SIGTERM and SIGINT is a thread of its own
whose `victim`, the thread it interrupts, takes no step any more.

`tmp[f]` and `path[f]` are the files `<f>.tmp` and `<f>`; of each piece they
keep which dump wrote it. A dump has a file open, not a name: `handle` follows
what it has open when another dump renames it. `Kill` may come between any two
steps; it leaves the files as they are. A write of a piece is the moment its
bytes reach the file, whether that is `fwrite` or `fclose`.

Abstractions. The delay of autodump is a choice in `Check`. The result and the
time of the last dump are only shown by `autodump stats` and are left out. The
machine does not crash under the process, so what was written stays written. The
dump of the empty target fails. One signal is handled; a second one in the
middle of the first is not modelled.

`DumpedFile` says what the operator relies on for `topy -R`: a target of
autodump holds one whole dump at any time, and only newer dumps replace it.

### StatsVector, Timer, Field and Fields

A sample vector is its width and its samples. `Values[w]` is how many values `w`
bytes have, so the wrap of a sample, the widening of `INC_OR_EXPAND` (once, and
an increment that still does not fit is lost) and the conversion to `int` are
those of the code with smaller numbers, as long as each width has at least four
times the values of the one before (`ValuesAssumption`). `Counts` is how many values
`uint8_t count` has: 256 in the code. `Find`, `Delete` and `SetSample` keep the
code's behaviour outside of the vector.

`Field` gives for each type what update, add, set, insert, del, clear, score,
dump and restore do to its value. Scores of events and marks go by the rules of
`EventsRules` and `MarksRules`. `TextEvents`, `BinaryEvents`, ... are a field
after it has been written and read again.

In `Timer`, `Calendar` has hours of `HourTicks`, days of `HoursPerDay` and months
of `DaysPerMonth`, instead of the tables of timer.cc. `refresh()` happens where
the code calls it: before a command on a field, for its first half in `Begin`
(the test of `lock_count`) and its second half in `Execute`, so that a report can
take the timer between the two (`raced`). `ReportAligned` speaks of reports that were
not raced; `OneChangeUnderWalk` says what is left for the others. `refresh()`
returns early in years before the first or after the last of its table; `Refreshed`
has no table, so it has neither these returns nor the year that lies past its end
(timer.cc:69, a hazard of `PROJECT.json` without property).

`Fields` composes them: `FieldsAdd` until the first user is made, `Begin` and
`Execute` for a command, `TimerLock`, `Visit`, `Skip` and `TimerUnlock` for a
report, `Restart` for a dump that is restored with the same or another table of
fields. The history variable `past` counts, for each field, what was added in
each period; `beyond` says that an addition was greater than a widening makes
room for, that a sum left the range of an `int`, or that something came from the
future, where the properties promise nothing.

### Filter, Ranking and Queries

`Filter` is `ExprParser`: `words` is what WordsParser has not read, `calls` the
recursion of `parse_element` and `parse_expr`, `stack` the stack of expressions.
An expression is the set of contexts (user id and group) it is true for, so a
filter is compared with its meaning as a set. `Wheres` holds the sentences of
the help's grammar with their meanings, and every short text of words without
one. Popping from an empty stack is undefined in C++: the model stops there
(`wild`).

`Ranking` has the lazy top-k of `Top` and the contests: the objects are in `heap`
and the threads hold pointers to them, so `contests delete` can free one in use
(`wild`, again). `seen` and `whole` record what a walk has met. `Queries` puts
the two together: the text of `top` and `contests generate` goes through the
parser, and the thread gets its result.

Left out: the expressions on fields in a filter, the second spelling of each operator
(expr_bool.cc:248-264: one word stands for both), the join columns, and `size`.

### Groups

Two servers, each with an event loop; the master has a thread as well, one at a
time. `group set` is two steps
(`Lookup` under the mutex of the groups, `Store` without it), groups delete and
clear are a step on the list and one for each user, and a dump writes the groups
first and the users later. Ids are numbers, `Both` and `Either` are `&` and `|`.
`Receive` is the slave's event loop; `net` is UDP.

A datagram is executed with `ClientResult result(NULL)` (udp.cc:81), so the slave
has no Client to give to a thread (`HasClient`). Most commands never look at it.
groups delete and groups clear do: `GroupDelThread` (groups_interface.cc:68) and
`GroupsClearThread` (:107) take a reference in their constructor
(client_thread.cc:4), and `ref_count++` (events.cc:133) goes through the null
pointer. `Crash` is that step: the slave ends, and what is under way comes to
nobody. So `groups delete` and `groups clear` on a master that replicates end its
slave, and its groups and users stay as they were. The fault is the build's usual
outcome of an undefined access; a start of the slave again is not modelled.

The history variables say where the properties stop, and why:

* `mixed`: an add has given a mask, or an id `index_counter` had not reached. The
  code gives such an id a second time.
* `loose`: users whose id is of several groups, or was stored by a group set that
  looked its group up before a delete took it, or was restored without its group.
* `stray`: of these, the users of the master whose id was restored without its group,
  because they joined it after the dump had written the groups.
* `parted`: the names and the users that faults of the network have harmed
  (`Harm`): a lost, doubled or overtaken groups add harms its group and the users
  of the group sets under way that name it, such a group set its user, and
  a groups delete or clear, like a restart of the master, everything. It spreads
  (`Parting`): a later group set that names a harmed group harms its user; and an
  add with a mask and no id is sent with an id, which makes it another group on
  the slave.

The cut of a command at 4096 bytes and the other replicated commands are left out.

### Clients and Sessions

`Clients` has the Client object from accept to delete: `opened`, the descriptor,
`ref_count`, whose increments and decrements are a read and a write, because
the event loop and the threads do them without a mutex. A command is answered
by the loop (`now`), by a thread (`late`), by the loop after the thread was made
and deleted (`refused`), never (`mute`, contests delete), or ends the connection
(`quit`). An answer is written in pieces, `opened` being tested before each; a
descriptor that was closed may be another connection's by then. `tangled` holds
the connections where two accesses to `ref_count` overlapped, after which the
count may be anything, `misused` those whose Client was used after it was freed.

`Sessions` is one resource of the PHP extension with such a server: connect,
query with and without waiting, the clearing of old answers before a query, the
second try on a new connection, the check of the transaction id. Left out:
topy_query_wait, which polls several resources, topy_info, topy_error, and the
parsing of the data. A command arrives whole, though several may be read as one,
and a write of a piece is all or nothing. Two simplifications of `Parsed`: two commands
that are read as one are the loop's to answer (`now`), as when the text after the first
is an error, even if the first is a command with a thread; and a refused thread gives
its reference back before the loop answers, while a where part that cannot be parsed
is answered first and then gives it back (server.cc:335-338), within one callback of
the loop either way.

## Runs

| run | instance | checks |
|---|---|---|
| `users_store` | 2 ids, one of them restored; 1 worker and AutoDump; 1 set; `user clear`; every job; `FairSpec` | `TypeOK`, `LocksHeld`, `StoreConserved`, `AddNeverWaits`, `Drains` |
| `users_history` | the same with `user delete`, jobs `visit` and `select`, AutoDump dumping | `DumpKeepsPromise` (refinement of `Roster`), `FieldsMatchFlag`, `DumpReadsLiveFields`, `DumpRevivesItsOwn` |
| `users_scans` | 2 interchangeable workers, no AutoDump; field commands, `visit`, `cleanup`, `select`, `sets clear` | `ScanCoversVector`, `CountMissesOnlyParked`: two scans, or a scan and a select or clear of the same set, at once |
| `users_existing` | 1 worker, field commands, `user clear` and `cleanup` | `CommandOnExistingUser` is violated |
| `autodump_files` | 1 target (or none), 1 other path on a full disk, 1 worker, 2 pieces, signals; `MaxDumps` = 3 | `TypeOK`, `TargetsStayWhole` (refinement of `DumpedFile`), `ForceHonoured` |
| `autodump_signal` | the same without the full disk | `Terminates` is violated |
| `fields` | 2 interchangeable users, one field of each type but log (or the table still empty), 2 to 4 commands, a clock that goes to 3 or back by 1, 1 report, 1 restart | `TypeOK`, `WindowsAreTallies`, `ScoresFollowTallies`, `UlogKeepsNewest`, `ReportAligned`, `RestoreKeepsFields`, `TimeNeverGoesBack`, `OneChangeUnderWalk` |
| `log_wrap` | the same with a log, longer than `Counts` | `LogKeepsNewest` is violated |
| `queries` | 3 users, 4 groups of which two share bits, all texts of up to 3 words and some longer, all sentences of two operators, 2 workers, 2 commands, 1 change | `TypeOK`, `FilterMeansWhatItSays`, `UnderflowIsMissingOperand`, `AcceptedIsBalanced`, `TopIsTop`, `ContestWhole`, `ThreadsEnd` |
| `groups` | 2 users, 2 groups, 4 commands; five scenarios: threads and a restart, ids given, bits given, and a slave with a fault of the network, with commands that end it and without | `TypeOK`, `UsersAreGrouped`, `SlaveFollows`, `NamesComeBack`, `NewGroupIsFresh` |
| `sessions` | up to 2 connections, 2 threads, 3 queries, transaction ids modulo 2; four scenarios: reference counts, transaction ids, pieces, failures | `TypeOK`, `FreedWhenUnused`, `OneStrayPiece`, `WrongAnswerHasNoTid`, `ClosedClientsAreFreed` |
| `answers` | the same | `TidIsReturned` is violated |

Bounds. Two users are enough for every race found in the code: one is in
`vector` while the other is created, parked, or met later by the same loop. Both
share one mutex of `user_lock`, as users whose ids agree modulo 1024 do, which
gives the most waiting. With the event loop, a worker and AutoDump three threads
run, which is one more than any race of the store needs (`users_scans` has two
workers instead, for one set shared by two jobs); the theorems take care of more. Nothing of
the users store is bounded by a counter: the lists hold no user twice, so the
state space is finite by itself. In `Autodump` the number of dumps is bounded
by `MaxDumps`, the dump found at the start included: two more, so that one can
overtake, overwrite or outlive the other. The bound is in the guard `Room` of
the steps that ask for a dump, never in those that carry it out, so that no
thread stops in the middle of a dump because of it. Two pieces tell a whole dump
from a part of one. `TargetsStayWhole` is checked with commands that dump into
other files only: a dump command into a target shares its `.tmp`.

`FieldsMatchFlag` and `DumpReadsLiveFields` are about the deletions of `user
delete`: the event loop is then the only thread that deletes, and it tests,
locks and deletes without another deletion in between. With `cleanup` they do
not hold, for the reason the run `users_existing` shows: a command whose user
has been deleted by the cleanup may reset the flag (`User::clear`) on freed
fields.

In `Fields` a byte has 4 values, two bytes 16, four 256, so that two additions of
3 overflow a sample and widen it; `Counts` is 4 and a window 2, so that a window
is full, shifted by one, and passed altogether within 4 ticks. `MaxCommands`,
`MaxRestarts` and `MaxReports` bound the histories, `Totals` has one number beyond
an `int`, which the text of a dump cannot carry; every operation comes before
and after every other one. In `Queries`, a text of three words is enough to
miss an operand, a bracket or a parenthesis at each place, and the longer ones
nest two of them; sizes 0 and 1 make `Top` throw users away with three users,
and two threads are needed for one contest. `Groups` and `Sessions` take their
bounds from scenarios (`Scenarios`, chosen in `Init`): one for each question, as
one instance with everything is too large. Four commands are add, set, delete
and add again, the shortest way to an id that is used twice; and two adds and two
group sets, with a fault at any of them, for the slave. Every clause of `Harm` and
`Parting` is needed: without any of them TLC finds `SlaveFollows` violated in these
scenarios. Two connections
are enough for one descriptor to be reused, two queries for an answer to be
taken for another's, three for the transaction ids to come round.

`CHECK_DEADLOCK FALSE` stands in the configurations whose commands are bounded:
when these are used up, the server waits for more.

Fairness. `FairSpec` asks for weak fairness of each thread: a thread that could
run all the time runs. The scheduler of the system gives that, and nothing is
asked of the mutexes (a thread may be overtaken at a mutex for ever). `Drains`
holds under it because it speaks of what happens once no more commands come.
In `Autodump`, `FairSpec` also asks for strong fairness of the two users of
`AutoDumpData::mutex` in autodump: who else takes it gives it back at once and
leaves it alone for long, AutoDump for the two seconds of its `sleep`. Without it
`Terminates` would fail for the uninteresting reason that a handler never gets a
mutex that is free again and again; with it, it fails because the thread the
handler interrupts holds the mutex. `ForceHonoured` and `Terminates` speak of
what happens once clients send no more commands.

In `Queries`, `Spec` asks for weak fairness of the event loop while it parses
and of each thread, and in `Sessions` of the event loop and of each thread;
clients, users and PHP may stop at any time. `ThreadsEnd` and
`ClosedClientsAreFreed` need no more.

Each property of a passing run has a mutant in `PROJECT.json`, a small change of
the code's behaviour under which TLC finds the property violated.

The four violations are disagreements between the code and what its help, a
comment or the ChangeLog says; `PROJECT.json` quotes the lines under "findings".

## Proofs

`UsersStoreProofs` proves for all values of the constants, from the assumptions
`ThreadsAssumption` (the names of the threads differ), `VectorsAssumption` (the
vectors differ) and `LoadAssumption` (the dump that is restored lists nobody
twice, which `DumpKeepsPromise` says of what a dump writes):

* `TypeCorrect`: `Spec => []TypeOK`;
* `MutualExclusion`: `Spec => []LocksHeld`;
* `NoUserLost`: `Spec => []StoreConserved`.

They follow from one inductive invariant, `IInv`, the conjunction of `TypeOK`,
`HandsOK`, `LocksHeld`, `StoreConserved` and `NothingParked`. `StoreConserved`
is not inductive: the step that empties `vector_new_users` loses a user parked
since the copy unless the mutex of `vector_new_users` is held all along
(`LocksHeld`), the push of the new user on `vector` keeps the order only if
nothing is parked (`NothingParked`), and both mutex invariants need to know
which vector and which user a thread has in hand (`HandsOK`). TLC checked `IInv`
on the instance of `users_store` before the proof.

The proof has one lemma per conjunct (`StepTypes`, `StepVectorLocks`,
`StepUserLocks`, `StepConserved`), each with one step per action. For the
mutexes, every action is a `VectorMove` and a `UserMove` of one thread, and a
frame lemma says that such a step keeps the mutexes right; for the conservation,
all but four actions are `Quiet`, and `AddPush`, `AddPark`, `UpdateMove`,
`UpdateForget` (and the creation of a user) are proved by the lemmas about
lists.

Its last section is about the fields of a user, under the hypothesis
`NoCleanup`: `cleanup` is not among the jobs. Without it the two properties are
false (run `users_existing`), so it is not there for the sake of the proof; the
run `users_history` has it too.

* `FlagTellsTheFields`: `NoCleanup => (Spec => []FieldsMatchFlag)`;
* `DumpsReadLiveFields`: `NoCleanup => (Spec => []DumpReadsLiveFields)`.

`FInv` says that only the event loop deletes, that a user the event loop has
found or made is not deleted until it deletes it (`MainFound`), that a user the
table does not have has no fields (`UnknownUsers`), and what is half done inside
`User::del` and `User::undel` (`HalfWay`).

`UsersHistoryProofs` proves, from the same assumptions and for every job,
cleanups included,

* `DumpsKeepTheirPromise`: `HSpec => DumpKeepsPromise`, the refinement of
  `Roster`;
* `ScansCoverTheirVector`: `HSpec => []ScanCoversVector`;
* `CountsMissOnlyParked`: `HSpec => []CountMissesOnlyParked`;
* `DumpsReviveTheirOwn`: `HSpec => DumpRevivesItsOwn`.

`HInv`, on top of `IInv`, follows each job from place to place: what its vector
is and that its iterator starts anew (`JobShape`), what the copy of a dump or a
select holds of the users its iterator has passed (`Copying`), that `always` and
`ever` are between what was there and what is there (`Remembers`), what the copy
of a dump has to do with them before, while and after it is made (`Copied`), and
that the list of a scan is the part of its vector that it has passed, less users
that were deleted (`Scanned`, with an embedding of the list in the vector,
`Follows`). A vector a scan walks must not move under it: that is `LocksHeld`
again. The steps of one job do not touch the others': `Apart` and one lemma per
step. For `Roster`, `PhaseOf` maps each place of a dump to its phase; every step
is a `Begin`, a `Report`, an `End` or a change of the users of `Roster`, or
changes nothing it sees.

`AutodumpProofs` proves from the assumptions of `Autodump` (the threads differ,
no file is another one's `.tmp`), and `OwnFiles`: no command dumps into a target
and no target is on a full disk,

* `AutodumpKeepsFiles`: `Spec => TargetsStayWhole`, the refinement of
  `DumpedFile`, for any number of threads, targets, pieces and dumps;
* `AutodumpTypes`: `Spec => []TypeOK`.

The inductive invariant (`AutodumpInvariance`) says that a dump of autodump is in
the section of `AutoDump::mutex` (`GoalsOK`), has `<path>.tmp` open
(`HandlesOK`), has written there all pieces up to the current one, and is newer
than every target (`ProgressOK`), and that every target is whole
(`VersionsOK`). Only `Open`, `Write` and `Rename` touch files: each has a lemma;
`FilesFrame` covers every other step. TLC checked the invariant with two targets
before the proof.

`GroupsProofs` proves from `GroupsAssumption` (the servers differ, the unknown
id is not an id, no user is a name, group set carries names):

* `NewGroupFresh`: `Spec => NewGroupIsFresh`.

The ids of the groups being below `index_counter` is not inductive. A group set
that has looked up its group stores the id after the group may be gone, so the
id it holds must be below the counter too (`LoopOK`), and so must those of the
users outside `stray`. A restart sets the counter to one more than the greatest
id of the dump's groups, which may be less than before: the users of the dump
stay below it only because those whose group the dump lacks are in `stray`, and
the greatest id exists only because the groups of every dump have a bound
(`DumpsOK`; lemma `GreatestNatural`, from the well-foundedness of `<`). All this
holds while `mixed` is false; `LeftOK`, `Shapes` and `FrameOK` hold always. One
lemma per action of the master gives the invariant, `SlaveApart` leaves out what
the slave does.

Its other sections are about both servers, under the hypothesis `Joins`: `|`
makes an id of two ids and leaves the other alone beside the unknown id, as it
does in C. It stands as a hypothesis, not as an assumption, because TLC cannot
try it on every number.

* `GroupsTyped`: `Joins => (Spec => []TypeOK)`;
* `UsersGrouped`: `Joins => (Spec => []UsersAreGrouped)`;
* `SlaveIsLikeMaster`: `Joins => (Spec => []SlaveFollows)`;
* `NamesAreKept`: `Joins /\ Masks => (Spec => []NamesComeBack)`, where `Masks` has
  what `&` and `|` do: they distribute, `&` is associative, zero is neutral or absorbs,
  and a number joined to itself is itself.

The joined id of several groups is a fold. The library's induction cannot be
used, but a fold has its partial results (`Folds`, `FoldsExist`), and the first
of them that broke a rule would come after one that did not (`LeastNatural`):
that is how `JoinedId` and `JoinedFolds` are proved. `TInv` is the type
invariant with what the two jobs and the datagrams carry. `Grouped` says of
every user, at any time, that it is in no group, in a group that is there, in
`loose`, or that the job under way has yet to reach it or the group set under way
to store it (`Reached`); when both are idle this is `UsersAreGrouped`. `Following`
has what `SlaveFollows` says of the end at any moment while the slave runs, nothing
that ends it is under way, and not everything is parted: there is a chain of states
that begins with what the slave has once its group set is done (`Settled`), goes
from state to state by what the datagrams under way make of them (`Effect`, `Leads`),
and ends with what the master has. States are compared but for the names and
users of `parted` (`Alike`), and no datagram for a user outside names a group inside
(`Fits`): that is what lets a chain survive a fault. A command of the master adds a link at
the end; a datagram that is read takes one off the beginning; one that is overtaken or
lost is taken out of the middle or the beginning once what it is about is parted
(`HarmedLeads`), and one that is doubled is added at the end. A group set under way on
the master must still mean what it found (`FilterParse` of the list now),
since the slave looks its names up later; that fails when a delete or a clear comes
in between, but then its datagram is under way, or has ended the slave, or is lost and
everything parted.
`JoinedBits` is what `NamesComeBack` needs: the mask of a group takes
from a joined id the id of that group or nothing, because the id of each group is
in its mask and the masks share no bit. The attempt showed that this, and that no
group without a mask has the joined id, had been left to the scenarios; `Distinct`
and `Joinable` say it now, and the scenario with masks has groups without one
too.

`FieldsProofs` proves from `ValuesAssumption` (widths have even numbers of
values, each at least four times those of the width before), `WindowsAssumption`
(the windows and ULOG_LEN are less than what `uint8_t count` counts; LOG_LEN need
not be, whence `log_wrap`), `TimerAssumption` and `FieldsAssumption` (commands
carry what StringUtils reads, and no table has a name twice), for any widths,
windows, calendars, tables, users and commands

* `TypesHold`: `Spec => []TypeOK`;
* `WindowsCount`: `Spec => []WindowsAreTallies`;
* `ScoresFollow`: `Spec => []ScoresFollowTallies`;
* `UlogKeeps`: `Spec => []UlogKeepsNewest`;
* `ReportsAligned`: `Spec => []ReportAligned`;
* `RestoresKeep`: `Spec => RestoreKeepsFields`;
* `TimeGoesOn`: `Spec => TimeNeverGoesBack`;
* `TimeHolds`: `Spec => OneChangeUnderWalk`.

`IInv` is the conjunction of `TimerOK` (the hour, day and month are those of one
moment, or unset), `RegistryOK`, `FieldsSound`, `MainOK`, `ReportOK` and
`AlignedOK`. `WindowsAreTallies` is not inductive: that an addition gives the sum
needs that the samples are in the range of their width, so that no conversion
changes them, that an increment refused by a width fits the next one (that is
what the factor four and `beyond` are for), that the vector has a place for each
period since `date`, and that `date` is not ahead of the timer, which holds only
because a clock set back is followed within one process at most by `Lag`.
`Sound` says this of one field: its samples (`Holds`), its history (`PastHolds`),
the pairs of a log (`Kept`), and the counts (`Tallied`). `AlignedOK` says of a
report that was not raced that the timer stands where it stood when the thread
locked it, that the command under way has found it held, and that the vectors
are the sums of what was visited. `WalkInv` says of a report that was: the command
that found no lock has yet to change the time, and no other may. The lemmas go from arithmetic to vectors
(`Translate`, `IncOrExpand`, the dumps), to fields, to tallies and logs, and one
for each action. A score adds up the samples of several periods, a fold again: a function with
its partial sums (`Adds`, `AddsExist`), and by the first place where they would
differ two lists that differ in zeros at the end have one sum (`SumSame`). So the
sum of the samples is that of the periods (`SumIsInLast`), because a vector has
no sample of a time before the first (`Count(v) <= d + 1` in `Counted`). The
attempt showed that the property held on the instance only because its numbers
are small: a score is an `int`, and what it sums, or multiplies by the precision,
may be none though each sample is. The property says so now.

The proof made assumptions of two things the code takes for
granted, the ratio of the widths and windows below 256, and completed `beyond`
with the sums that leave an `int`. TLC checked `IInv` on the instance of `fields`
before the proof.

`SessionsProofs` proves from `ClientsAssumption` (connections are numbered from
1 and are finitely many, as threads are; the scenarios are within them)

* `TypeCorrectness`: `Spec => []TypeOK`;
* `ClientsFreedInTime`: `Spec => []FreedWhenUnused`;
* `StraysStop`: `Spec => []OneStrayPiece`;
* `AnswersAreTold`: `Spec => []WrongAnswerHasNoTid`.

`IInv` is `Typed` and `Shape`: which descriptor is whose, what an actor has at
each place of its work, and what PHP waits for. `RefsCounted` is the reference
count itself: of a Client that no two actors changed at once (outside
`tangled`), `ref_count` is the number of the actors that have a reference
(`Holders`), and one for the open connection; an actor that has read the count
to write it back has read what is still there. `OneStrayPiece` needs to know
that a command waits or is answered in one place only (`OneAnswer`), and that
the actor that has left a piece on a wrong connection is about to test `opened`
and find it false (`StraysAreLast`). For the transaction ids, `TidsFollow`
gives every command and answer of a resource its number counted from when the
resource was made, whatever `TidLimit`: an answer with the right id is that of
the last command, or a whole number of turns older.

`RankingProofs` proves from `RankingAssumption` (the walk of a vector is a
list of users, `{}` is a group, sizes and slices are natural numbers)

* `TopsAreTops`: `Spec => []TopIsTop`;
* `ContestsAreWhole`: `Spec => []ContestWhole`.

The rank of an item is the number of items before it (`Place`), and sorting puts
each at its rank. `Top` appends, and sorts and cuts only when its list is twice
too long; what it keeps of all the items it saw is said by an embedding of its
list in them (`Kept`): every item that is not kept comes after `size` others.
That survives an item that is refused for its score, one that is taken, and a
sort with a cut; after the last cut the list is that of the first ranks. A
thread has its contest from its lock to its unlock (`RankJob`, `GetJob`,
`BriefJob`), so what it has seen is what is in it, and nobody else's step changes
it (`OthersWork`). `Quiet` is the rest: what nobody holds is whole.

`ParserProofs` proves, from `FilterAssumption` (words are strings, a prefix or a
suffix of users is none the parser reserves, the groups are finitely many),

* `QueriesTyped`: `Spec => []TypeOK`;
* `UnderflowsAreMissingOperands`: `Spec => []UnderflowIsMissingOperand`;
* `AcceptedAreBalanced`: `Plain` proves `Spec => []AcceptedIsBalanced`, where
  `Plain` says that no group is called `(` or `)`. The code does not forbid
  such a name, and then `[ ( ]` is a filter that is not balanced.

The inductive invariant `FInv` has four parts. `Parsing`: the words left are the
end of the text, and the pending calls are nested as `parse_element` and
`parse_expr` call each other (`Pending`, on the calls from the outermost on).
`Balanced`: between two words, as many parentheses are open in the text as calls
wait for one. `Enclosed`: a parenthesis at the start is the outermost call until
the end. `Operands`: unless an operand is missing, each pending call has a height
of the stack it began with (`Fits`); what returns true has left one operand
more, and an operator was called with one already.
The attempt to prove it corrected the property: `! ( [ )` pops from the empty
stack with a bracket where the operand should be, one word more than the texts
TLC had; `Incomplete` and `MCTexts` have it now.

Minima and maxima of sets of numbers are shown to exist from the
well-foundedness of `<`. Neither prover knows that a literal such as `"("` is a
member of `STRING`, so texts are lists over `Vocabulary`, the set of the words
that occur.

Model-checked only:

* `ForceHonoured`, `Drains`, `ThreadsEnd`, `ClosedClientsAreFreed`: liveness;
  `AddNeverWaits` speaks of ENABLED.
* `FilterMeansWhatItSays`: what the trees of a sentence evaluate to needs
  induction over sentences.

## Not modelled

* Statistics (stats.cc): counters under one mutex that nothing else reads.
* The text of answers, help, munin, log and configuration; serializer.cc,
  stringutils.cc: conversions without state.
* `groups stats`, `groups list`, `sets list`, the table of names of the sets.
* Expressions on fields in a filter, join columns of a top.
* The spelling of numbers and names in a dump; that a text dump has no mark at
  its end.
* A second signal during the first one's dump.
* Torn reads: a filter that reads a sample while a command writes it; the
  decrement of `lock_count` that two threads may lose.
* What happens after undefined behaviour: a contest freed under its thread (`wild`),
  a `ref_count` two threads changed at once (`tangled`), a slave that is started again
  after a replicated `groups clear` ended it. The models have these steps, and the
  properties leave out what comes after; `PROJECT.json` lists them as hazards without
  a property, each with the reason.
* topy_query_wait of the PHP client, topy-cli, utopy.
* TCP segments that split a command, and a write that takes part of a piece.

## Plan

1. Dump files: the text format and a second signal during the first.
