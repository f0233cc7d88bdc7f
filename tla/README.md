# Verification of prointegra-OPC

TLA+ models of prointegra-OPC, the TLC runs that check them on small instances, and proofs of what
matters most for instances of any size. All line numbers are of the sources of this repository.

## 1. The system

prointegra-OPC copies values between PLCs and SQL databases. An operator's SCADA reads the
tables, edits their rows and raises *triggers*, rows of a table of requests. Three processes and a
database share state:

    operator / SCADA --SQL--> database <--SQL-- OPC (one thread)
                                                 |  ^
                                          mailbox|  |shared memory
                                                 v  |
                                          modbus daemon (two threads) --one TCP socket--> PLCs

| Component | Source | State | Operations |
|---|---|---|---|
| OPC scan loop | `prointegraOPC.cpp` | `lExit` | `dataCapture`, `lockTables`, `getTriggers`, `dataToComm`, `dataToDB`, `delTriggers` |
| Database interface | `piDatabase.cpp` | `triggersLst`, `timeTriggersLst` | `setup`, `lockTable`, `unlockTable`, `takeTriggers`, `retrieveData`, `storeData`, `resetTriggers` |
| Data tables | `piTable.cpp`, `piDataTable.cpp` | per field `iValue`, `isValid`; per table `locked`, `read` | `lockOrUnlock`, `setAllValues`, `updateData`, `store`, time triggers |
| Triggers table | `piTriggersTable.cpp` | per field `iValue`, `isDone` | `updtTrgsOn`, `retTgsLst`, `updtTrgsDone`, `sqlTrgsDone` |
| Slave interface | `piComm.cpp` | per tag `iValue`, `valueValid` | `readTag`, `writeTag` |
| Tag conversions | `gStConv.c` | none | word, double word, integer |
| SQL access | `qtdatabase.cpp` | one open result | `query`, `retData` |
| Modbus daemon | `modbus_client2.cpp` | socket address, `actualSlave`, poll counters, mutex | polling cycles; writing thread |
| Configuration parser | `config.cpp` | parsed parameters | `retrieveCommParams`, `checkSlaveId`, `checkSlaveName`, `checkSlaveProtocol` |
| Ini file generator | `iniConfigurator.cpp` | the cycles being cut | `iniMBTCPCreate`, `writMBTCPSocket`, `writMBTCPCycles` |
| Daemon launcher | `commDaemon.cpp` | `daemons`, threads | constructor, `iniDaemons`, `launchDaemons` |

What is hard here:

* *Interleaving.* The operator changes rows and triggers between any two queries of the OPC, the
  daemon changes the shared memory between any two looks at it (`readINT` looks twice), and the
  daemon's two threads share a socket that points at one PLC at a time.
* *Partial failure.* Hardly a result of a query is looked at. A failed `SELECT` yields an empty
  result and the code goes on.
* *State that outlives a scan.* The `iValue` and `isDone` of triggers, the lock counters, the time
  of the last read. One trigger may serve several tables, as in `config/database.xml`.
* *Late answers.* A PLC may answer after the one who asked gave up.
* *Start and restart.* What a run leaves in the database and on disk meets a configuration that may
  have changed; the files decide whether a loop of the parser ends.
* *Numbers.* Signed values through 16-bit words, C's truncating division, `char`s.

What makes each part correct: a request raised is served by every table it names, then reset, and
no raise is lost or served twice (triggers); an edit is not overwritten before it was sent or its
lock ran out, and locks end (tables); a value arrives as it was written (conversions); every
request reaches the PLC it is for, once and in order, and every answer the one who asked (daemon);
ids are found and distinct, what is polled is what is read, and no trigger is up or missing when
the first scan begins (start).
`PROJECT.json` lists the hazards one by one at their lines, with the properties that cover them.

## 2. Modules

| Module | Models |
|---|---|
| `TagValues` | `gStConv.c`, the choice of a conversion in `piComm.cpp`, the bytes of a register in `modbus_client2.cpp`. Constant operators. |
| `DBDataTable` | a data table: what the answer of a query does to memory and lock, what the built queries do to the rows. Constant operators over one table's state. |
| `DBTriggersTable` | the triggers table: fields, names, the sets *on* (`iValue = 1`) and *done* (`isDone = 1`) and their updates. |
| `ProintegraOPC` | composes the three into the OPC process with its environment: operator, daemon, clock, signal, restart. |
| `TriggerRequests` | `ProintegraOPC` with history variables about requests: what was sent, raised, raised anew. |
| `TableLocks` | `ProintegraOPC` with history variables about edits: noticed, edited, touched. |
| `OPCProgress` | liveness of `ProintegraOPC`. |
| `OPCClaims` | what documents and comments say of the OPC and the code does not keep. |
| `Requests` | what the OPC promises an operator who raises triggers, in five actions. Abstract: `TriggerRequests` implements it. |
| `ModbusClient` | the daemon's two threads, mailbox, mutex and socket, over rllib and PLCs as external. |
| `WriteDelivery` | `ModbusClient` with history variables that follow each write to the PLC or to where it is lost. |
| `Delivery` | what the daemon promises the OPC for its writes, in four actions. Abstract: `WriteDelivery` implements it. |
| `ConfigParser` | `slaves.xml` read slave by slave, with the search for ids step by step. |
| `IniConfigurator` | the ini file of the daemon, with the cutting of tags into cycles tag by tag; extends `ConfigParser`. |
| `TriggerRows` | the rows of the triggers table and the statements `setup` builds for them. Constant operators. |
| `Startup` | composes the three with the start of the process, failing queries, operators and restarts. |
| `MC...` | instances for TLC. |
| `..._proofs` | theorems and proofs. |

History never feeds back: each history module conjoins its updates to an action of
`ProintegraOPC` or `ModbusClient` and leaves the program's variables to that action.

### ProintegraOPC and the code

The OPC is one thread, so a step may span all it does between two accesses to what others change:
one query, or one look at the shared memory, per step. `pc` says where `loop()` is:

| `pc` | code | actions |
|---|---|---|
| `top` | `prointegraOPC.cpp:269` | `LoopTop` |
| `capture`, `captureUse` | `readData` and the two looks of `readINT`, `readWORD` | `ReadTagCheck`, `ReadTagUse` |
| `captured` | 276-281 | `DataCaptured` |
| `lock` | `lockTables`, one table a step | `LockTable` |
| `triggers` | `takeTriggers` | `TakeTriggers` |
| `comm` | `dataToComm`, one table a step | `DataToComm`, `DataToCommDone` |
| `pick`, `read`, `readUse`, `store` | `dataToDB`, per table: lock test, tags, `storeData` | `PickTable`, `ReadTagCheck`, `ReadTagUse`, `StoreData` |
| `pick` with nothing left | `resetTriggers` | `ResetTriggers` |
| `stopped`, `aborted` | return of `loop`; an exception nobody catches | |

Every query may fail (`Query(ok)`), as often as the bound `fail` allows. `Restart` kills the
process at any step and runs `setup` on the database as it is, each of its queries failing or not.
Row content is reduced to what the code tells apart: none, one or many rows, and the last of them.
`RetData` keeps what `qtdatabase.cpp` does to the rows with each driver. Period and clock are
reduced to whether a table's period is over. One database is modelled (with two, the functions run
for one after the other and share nothing in memory). The queries of tables whose columns are not
all `INT` or `FLOAT` are not modelled: the code leaves `field` unset for them.

`new char[iValue + 5]` (`piDataTable.cpp:323, 406, 490, 575`) writes past its array for small
values; that goes unnoticed within the slack of the allocator and is modelled as the normal
outcome. A value below -5 makes the size negative, which throws (`StoreThrows`).

### ModbusClient and the code

`pc` follows `main`, `readModbus`, `modbusCycle`; `wpc` follows `mailboxReadThread`. Taking the
mutex, pointing the socket and sending the request is one step; getting or giving up the answer,
what follows and the release is another; PLCs and the other thread act in between. `conn` is the
TCP connection: where it goes, whether it is up, what was sent and not answered, what was answered
and not read. The first connection (113) may fail, and the daemon goes on without it. A read error
of the mailbox (173) ends the writing thread for good (`MailboxReadFails`, `wpc = "ended"`).
Coils (208-214, `doit = 0` for what is no register) are left out: the OPC posts only `register(..)`.

Three things are assumed of what is external: a PLC echoes the slave of the request (the protocol
demands it); `response()` gives the caller the next answer on the connection without comparing it
with a request (the caller compares neither slave nor function); and a PLC executes no request of
a connection that was closed before it answered. TCP does not recall what a PLC has already
received, so the last is an assumption about PLCs: `ExecutedInOrder`, `KeepsDelivery` and their
theorems rest on it. A cycle is one value. The daemon is modelled as `iniConfigurator.cpp` configures it, with a socket. It writes
`N_POLL_SLAVE=0` (`iniConfigurator.cpp:48`); the run takes 2, so that the counters that put off a
failed slave are used, and the proofs hold for any.

A message reaches the daemon by `Post`, or is refused (`PostRefused`), which `writeTag` hides from
its caller (`piComm.cpp:170`). `WriteDelivery` numbers the messages in the order they are posted.
The number goes from `mail`, beside the mailbox, to `hand`, that of `mailboxReadThread`, to `wire`,
beside the requests on the connection, to `exec`, the writes the PLCs executed: a PLC executes a
request when it answers it. A disconnect drops the requests not answered; they join `lost`, as
refused messages do. What the mailbox held when the daemon cleared it (172) joins `cleared`.
A refused message counts as a fault, because nothing tells its sender apart from one that was
served; `Delivery` therefore starts with or without a fault already met (a failed first connection).

Read together with `Requests`, this is the way of a request from the operator to the PLC: a trigger
is reset only after every table written on it was sent (`KeepsRequests`), and what is sent is
executed, once and in order, unless a fault, the clearing at the daemon's start or its end
intervenes, that of its writing thread included (`WriteArrives`, `LostOnlyByFault`, `ExecutedInOrder`, and all of it but the liveness in
one: `KeepsDelivery`). The link between the two is
`writeTag`, which both model (`posted` and `Post`); they are not composed in one state space.

### Startup and the code

The constructor of `ProintegraOPC`, the launch and the first scan are one thread; `at` says where
it is:

| `at` | code | actions |
|---|---|---|
| `create`, `rows` | `piDatabase.cpp:37-102`, one statement a step | `CreateTable`, `InitValues`, `SetupDone` |
| `slave` | `config.cpp:218-252`, next slave | `TakeSlave`; `CommDaemon` after the last |
| `while`, `compare` | `checkSlaveId`, a pass and each comparison | `NextPass`, `Compare`, `IdFound` |
| `checks` | names, protocol, tags | `SlaveDone` |
| `ini` | `iniConfigurator.cpp:30-69, 84-166`, tag by tag | `IniNotOpened`, `NextTag`, `NextParam`, `IniWritten` |
| `launch`, `scan` | `commDaemon.cpp:101-129`, first `dataCapture` | `LaunchDaemons`, `FirstScan` |
| `running`, `aborted`, `segv` | the loop; an exception nobody catches; a null pointer used | |

The code does more than the models of the loop rely on, and the properties say under which
conditions all is well. Outside of them, read off the model:

* `PlainNumbers`. A slave has three numbers: `commId`, by which its tags are read; its place, by
  which they are written; its place among the `MODBUSTCP` slaves, by which the daemon polls. An id
  that is not the place reads tags nobody polls.
* `Sound`. On any slave but the first, an id asked for above 1000, or taken ids up to 1000, make
  `checkSlaveId` loop for ever; a search that ends at 1000 gives -1, which is never polled. A slave
  without tags ends the process in `writMBTCPCycles` (`at(0)` of an empty vector), and an invalid
  slave with tags (a name met before) in its first scan.
* `RowsFit`. With MySQL, a list of triggers that became shorter leaves rows with their old name and
  value; with SQLite, a new name may take the row of another.

`TriggerRows` says which names `retNoRepeatedFields` keeps by their rank among the fields that no
field of the same name precedes, which is what its two loops count.

`Sound` is what a file must satisfy to start: all slaves `MODBUSTCP` with tags and names of their
own, and ids that leave the search room below the limit. `SoundStaysSafe` and `StartAdvances` say
why that is enough, `SoundFileStarts` that it is. What remains of a start (`Remaining`) is six
numbers in lexicographic order: the stage; the rows, slaves or parameters left in it; the tags
left; the ids left to the limit; whether the pass of the search has met a match; the comparisons
left in the pass. Outside of `Sound` the fourth has no bound below, and that is the endless loop.

`ini` is the file as this process wrote it. When `fopen` fails (`iniConfigurator.cpp:36`) nobody
looks at the result and the daemon is launched with the file of an earlier run, or none: `ini`
stays `NoIni`, and `CyclesCoverTags` and `OneNumbering` say nothing of such a start. The comment at
`iniConfigurator.cpp:108` says that a cycle should not exceed 90 registers; the code never checks
it, the model has no bound either, and what a PLC answers to a longer request is outside the
source. A name that is missing in a file (a NULL string, for
which `strcmp` is undefined) and the overflow of an id at the largest `int` are left out.

## 3. Runs

All bounds are constants of the MC modules.

| Run | Shows | Bounds, and why they are enough |
|---|---|---|
| `TagValues` | an INT column's value is read back clamped to 16 bits; every word is read as two's complement and written back as it was; a value of a WORD column is read back modulo 2^16, but a negative one that is no multiple of 256 comes out 256 too high (-1 as 255), because `modbus_client2.cpp:204` truncates towards zero | all values -66000..66000, beyond both clamps and all words |
| `TriggerRequests` | `ResetAfterSent`, `FreshRaiseKept`, `RaisedIsServed`, `SendsBounded`, the inductive `RequestInv`, and the refinement `KeepsRequests` | 3 tables and 2 triggers: one trigger writes two tables and is read by a third, whose own write trigger is another's read trigger. 3 raises, 2 failed queries, 1 restart: a raise before, during and after a scan whose query failed. No tags or edits: they touch no trigger. |
| `TableLocks` | `NoticedEditKept`, `LockedWasTouched`, `UntouchedInSync`, `TypeOK` | a LASTVALUE table read by time and written on the trigger, a LOG table read on it; 2 polls, 1 edit, 1 raise, 1 failure, 1 restart; the lock limit is 1 instead of 20, so that the count passes it. |
| `OPCProgress` | `RaisedWriteIsReset`, `DueTableIsRead`, `LockRunsOut` | the same kinds of tables; one poll, edit, raise, failure and restart, after which the loop must make good. |
| `ModbusClient` | `SocketAtActual`, `NothingMisdirected`, `ReadsOwnAnswer`, `MailboxServed`, `ErrRecovers`, `TypeOK`; of the writes `ExecutedInOrder`, `LostOnlyByFault`, `WriteArrives`, and the refinement `KeepsDelivery` (`MailboxServed` and `WriteArrives` leave out a daemon whose writing thread ended) | 2 slaves, 3 cycles (one slave has two and shares its counter between them); 3 messages, so that one is on its way while another waits and a third is posted; 2 faults: a write or a read that times out and a first connection or a reconnection that fails, a message refused, or a read error of the mailbox. |
| `Startup` | `IdIsLeastFree` with its loop invariant `SearchInv`; `CyclesCoverTags` with `CycleInv`; `OneNumbering`; `TriggersReady`; `SoundStaysSafe`, `StartAdvances`, `SoundFileStarts` | Files of three kinds, because the product would be too large: 4 slaves with any ids (a search can pass over three taken ones); 2 slaves with any names, protocols and 7 lists of tags (none, a run, gaps, unordered, repeated); 7 lists of triggers with either database, met again after up to 2 restarts with 1 failing query. `IdLimit` is 4 instead of 1000, so that ids reach and pass it; the proofs are for any limit. |

Six runs show where the code does not do what the repository says of it; each is expected to end
in a violation:

| Run | Document | Code |
|---|---|---|
| `ClaimReadMark` | `piDatabase.cpp:577` | `prointegraOPC.cpp:222` passes a loop index for a table |
| `ClaimStoresInt` | `CHANGELOG.md:27` | `piDataTable.cpp:575`, an INT below -5 ends the process |
| `ClaimSilent` | `CHANGELOG.md:31` | `piComm.cpp:78`, `readData` always answers 0 |
| `ClaimLockPeriod` | `piDatabase.cpp:350` | `piTable.cpp:666`, the lock of an edit taken back never ends |
| `ClaimSqlite` | `README.md:9-10` | `qtdatabase.cpp:260`, the first row is lost |
| `ClaimLockEdited` | `CHANGELOG.md:10` | `piDataTable.cpp:745`, an invalid tag locks its table |

Deadlock is checked in every run but two: `TagValues`, whose sweep ends, and `Startup`, where the
process may run, abort or crash and then nothing of the start is left to do. A terminated OPC or
daemon is an action of its own (`Stopped`). The OPC stops by an exception only in `ClaimStoresInt`.

Every property of a passing run has a mutant: a definition marked `\* mutant` that changes a
definition of the model the way a slip in the code would, with which the run finds the property
violated.

Hazards where the code does go wrong and which a property must leave out are listed without that
property in `PROJECT.json`, each with a note: a late answer of a write that gave up (`gaveUp` in
`ReadsOwnAnswer`), messages cleared or refused, ids that are not the place, files that are not
sound, rows that do not fit.

### Fairness

`ProintegraOPC!FairSpec`: weak fairness of the scan as a whole, because `loop()` is one thread that
waits for nobody, and of the clock. Nothing is assumed of operator, daemon or queries; queries fail
finitely often because of the bound.

`ModbusClient!FairSpec`: weak fairness of the main thread, of the PLCs' answers and of the writing
thread; strong fairness of the step in which the writing thread takes the mutex. A mutex promises
no order, but the main thread sleeps `cycletime` (500 ms) in every round without it, which is
time enough for a thread that waits. `WriteDelivery!HFairSpec` is the same for the actions with
history.

`Startup!FairSpec`: weak fairness of the constructor, a thread that waits for nobody. That each
step is taken does not make the search for an id end, which is what `StartAdvances` and
`SoundFileStarts` are about.

## 4. Proofs

All are checked by TLAPS, for every value of the constants that the `ASSUME`s allow (these are
types: tables numbered from 0, tags from 1, links and triggers that exist).

| Theorem | Says | Argument |
|---|---|---|
| `ProintegraOPC_proofs!TypeCorrect` | `Spec => []TypeOK` | `TypeOK` is inductive with the ranges of `idx` per `pc` that it states. The lock counter stays within the limit because `lockOrUnlock` tests after counting. |
| `TriggerRequests_proofs!RequestInvariant` | `HSpec => []RequestInv` | `RequestInv` with `TypeOK` is inductive. `MarkedByName`: fields of one name are on and done together, because `updtTrgsOn` and `updtTrgsDone` go by name. `ServedIsRaised`: what is to be served is raised, because only the reset lowers a trigger and it marks what it lowers. `ListIsOn`, `SentOrToSend`: during a scan the list is what is on, and its written tables are sent or to be sent. |
| `TriggerRequests_proofs!ResetOnlyAfterSent` | `HSpec => ResetAfterSent` | A name reset has a field on and done, which was in the list; by `MarkedByName` every written table of that name is in the list too, and at the end of `dataToComm` it was sent. |
| `TriggerRequests_proofs!FreshRaiseIsKept` | `HSpec => FreshRaiseKept` | What is on at the reset was selected in this scan, so its name was up when the scan began: `ListIsOn` keeps the fresh names out. |
| `TableLocks_proofs!NoticedEditIsKept` | `LSpec => NoticedEditKept` | Invariant: a noticed table is locked, and the table being stored was not locked when picked and is not noticed. |
| `TableLocks_proofs!LocksHaveACause` | with `QMYSQL`, `LSpec => [](LockedWasTouched /\ UntouchedInSync)` | The two are inductive together: a table nobody touched agrees with memory, so it is never counted. SQLite needs none of this: its rows never agree with what is read of them. |
| `TagValues_proofs!IntTagReadsBack` | for every integer, what is written to an INT tag is read back clamped | Case split on the sign of the clamped value; a word is split in two bytes and joined again. |
| `ModbusClient_proofs!SocketReturned`, `RightSlave` | `Spec => []SocketAtActual`, `Spec => []NothingMisdirected` | Invariant `IInv`: the socket leads to `actualSlave`, or to the slave written to while the writer holds the mutex (`SocketInv`), and all that is in transit is for the slave at its end (`Good`). The writer goes by the slave its answer names, which `Good` makes the slave it asked. |
| `ModbusClient_proofs!OwnAnswer` | `Spec => ReadsOwnAnswer` | `QueueInv`: unless a write gave up on the connection, exactly the request of the owner of the mutex is in transit, and nothing when it is free; a failed read empties it by reconnecting. |
| `TriggerRequests_proofs!SendsAreBounded` | `HSpec => []SendsBounded` | Accounting: a table is *owed* a sending while its trigger is up and the scan that took it up has not sent it. `SendInv`: what was sent and what is owed never exceed raises and failures. A sending pays what was owed; a raise from 0 and a reset that fails owe anew, and count. |
| `TriggerRequests_proofs!OPCKeepsRequests` | `HSpec => KeepsRequests` | Refinement: taken up are the names of the scan's list, served the tables sent in it. Each step of the OPC is one of `Requests` or a stutter; `RequestInv` gives `Finish` its guard. |
| `TriggerRequests_proofs!RaisedIsServedInScan` | `HSpec => RaisedIsServed` | A selected name turns all its fields on and not done, so the written tables are in the list. At the reset each of them was sent (`SentOrToSend`), so it was marked (`SentIsMarked`), and its name is among those reset. |
| `TableLocks_proofs!UntouchedStaysInSync` | with `QMYSQL`, `LSpec => []UntouchedInSync` | part of the invariant of `LocksHaveACause` |
| `TagValues_proofs!IntRoundTrips`, `WordsAreTwosComplement`, `WordRoundTrips` | the three properties of the run, for any bound of its sweep | from lemmas on the bytes of a frame and on words, by cases on the signs |
| `TagValues_proofs!DWordReads` | for every pair of words, `gstDWord2Long` is the two's complement of the 32 bits, plus 65535 when they are negative with low word 0 | `gStConv.c:73` adds 1 where 65536 is due; by cases on the sign and the low word. No run checks it: nothing in the OPC calls this function. |
| `ModbusClient_proofs!SocketTypeCorrect` | `Spec => []TypeOK` | inductive; who holds the mutex waits for a response |
| `WriteDelivery_proofs!WritesInOrder` | `HSpec => []ExecutedInOrder` | Invariant: executed, on the wire, in hand and in the mailbox are one increasing sequence of numbers, because a thread sends only what it took and waits before it takes the next. |
| `WriteDelivery_proofs!LossesAreFaults` | `HSpec => []LostOnlyByFault` | Invariant: while no fault was spent, the wire is empty whenever the mutex is free and holds only the owner's request otherwise; so no change of address meets a write on its way. |
| `Startup_proofs!SearchIsSound`, `LeastFreeIdAssigned` | `Spec => []SearchInv`, `Spec => []IdIsLeastFree` | The loop invariant of the search: all ids from the one asked for up to `commId` are taken, and in a pass without a match those compared differ. |
| `Startup_proofs!CutIsSound`, `TagsArePolled` | `Spec => []CycleInv`, `Spec => []CyclesCoverTags` | The loop invariant of the cutting: the cycles saved and the one that grows are the tags passed by. No order of the tags is assumed. |
| `Startup_proofs!NumbersAreOne` | `Spec => []OneNumbering` | Invariant: under `PlainNumbers` the ids taken before a slave are the places before it, so the least free id is its place, and the n-th `MODBUSTCP` slave is the n-th of all. |
| `WriteDelivery_proofs!DaemonDelivers` | `HSpec => KeepsDelivery` | Refinement: under way is what is on the wire, in hand or in the mailbox. Three invariants carry it: that of `WritesInOrder` makes the write a PLC answers the oldest under way, that of `LossesAreFaults` makes a disconnect that drops a write a step of `Fault`, and before the mailbox is cleared nothing is in hand or on the wire. |
| `TriggerRows_proofs!TriggersAreReady` | `Spec => []TriggersReady` | Lemma `NoRepetitions`: the list of names has each name once, by the ranks of a finite set. Invariant `RowsInv`: in a setup without failures the names inserted so far have the rows their statements gave them, the other rows are those from before, and what is up was raised since its row was set; with MySQL the place is the row, with SQLite the row of a name or one that was free, which `RowsFit` provides. |
| `Startup_proofs!SoundFilesStaySafe` | `Spec => []SoundStaysSafe` | Invariant `SoundInv`: every slave parsed so far of a sound file is valid and has tags, so the cycle is never empty and no slave lacks its interface. A search is at most as many ids above its first as there are slaves before it (`SearchStaysLow`), because the ids passed over are taken and distinct. |
| `Startup_proofs!EachStepAdvances` | `Spec => StartAdvances` | One case per step: which of the six numbers falls, and that those before it stay. A pass with a match raises the id, and the invariant of the search keeps a pass without one from going on. |
| `Startup_proofs!SoundStartsEnd` | the measure of `StartAdvances` is well-founded on `[1 .. 6 -> Nat]`, and each step of the start of a sound file descends in it | A set without a least element would have, number by number, a subset on which one more number is the same and least (`NoEndlessDescent`); after six, one element is left. |

Invariants and action properties of the passing runs are all proved. Only model-checked is
liveness (`RaisedWriteIsReset`, `DueTableIsRead`, `LockRunsOut`, `MailboxServed`, `ErrRecovers`,
`WriteArrives`, `SoundFileStarts`), which needs ENABLED. For two of them what can be proved without
it is: `StartAdvances` with `SoundStartsEnd` is `SoundFileStarts` but for the fairness that takes
the steps, and `RaisedIsServed` is the scan that `RaisedWriteIsReset` waits for. No proof is by
induction over data, which the provers cannot do: what would need one is stated over the ranks of a
finite set (`RetNoRepeatedFields`) or carried by an invariant of the steps.

Of the files `Startup` assumes (`ConfigsAssumption`) that slaves, their tags and triggers are
finite lists and that ids and registers are integers.

## 5. Not modelled, and the plan

Not modelled:

* printing and logging, SQL text, ports and other attributes nothing branches on;
* functions without callers: `storeDB`, `DBTable::create` and `store`, `populateTable`, the
  `iniConfigurator` functions of an older format (`iniConfigurator.cpp:170-287`), `checkTagData`
  beyond its constant result, `gstDWord2Float` (no floats in TLA+ either);
* `checkComm` and `checkDaemon`, which are empty; what `popen` and the shell do with the daemon,
  among it whether one of an earlier run still lives;
* `database.xml`, of which the parser hands the attributes on: it is the constants of
  `ProintegraOPC` and the lists of triggers of `Startup`;
* a second database (Qt's default connection is one), the serial line and coils of the daemon;
* `src/lib/pugixml-1.7`, third-party code: 13,844 of the 21,792 lines of implementation. Of the
  other 7,948, headers and build files included, a good third is modelled; most of the rest is
  text of SQL queries, printing and the functions without callers above.

The plan was, the most important first: (1) `ProintegraOPC` with its tables and conversions, (2)
`TriggerRequests`, (3) `TableLocks`, (4) `OPCProgress` and `OPCClaims`, (5) `ModbusClient`, (6) the
refinement of `Requests`, (7) the start, with the parser and the ini file, (8) the fate of a write
in the daemon, (9) the proofs of each. All of it is done, of the proofs all but liveness; left is

* the read-back of a register in the scan that posted its write (`prointegraOPC.cpp:289`): the
  models allow it, no document says what should hold, and a property needs OPC and daemon in one
  state space.
