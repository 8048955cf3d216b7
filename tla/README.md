# Foresee: specification and proofs

Foresee is a small decision language. A program takes a snapshot of a resource,
lets a model propose plans, tries each plan on a copy, selects the best plan that
passed every check and commits it, provided the resource has not changed in the
meantime. Around that sit a journal for recovery, offline replay of reports,
bounded calls of models and signed evidence. There is a Python implementation of
everything and a Rust implementation of the compiler and a language server.

This directory holds TLA+ models of that program, TLC configurations that check
them on small instances, and TLAPS proofs for arbitrary ones. `PROJECT.json`
maps every definition to the lines it stands for.

## 1. Inventory

| Part | State | Operations | Talks to |
|---|---|---|---|
| Catalog adapter `foresee/catalog.py` | SQLite file: rows, revision, target identity, receipts | `snapshot`, `commit`, `mutate_for_stale_test` | SQLite locks, other writers |
| Journal `foresee/journal.py` | SQLite file: runs, operations | `start`, `prepare`, `record`, `complete`, `reconcile` | interpreter, receipts of the catalog |
| Front end `lexer.py`, `parser.py` | position, tokens, errors | lex, parse | checker |
| Checker `compiler.py`, `signatures.py` | bindings, used effects, consumed selections, diagnostics | check a statement, an expression, a branch | front end, interpreter |
| Interpreter `runtime.py`, `providers.py` | environment, trial and selection tokens, event log, outcome | run a statement; reserve and observe evidence | catalog, model, journal |
| Offline replay `replay.py` | cursor in the recorded events | rebuild the source of a report, reproduce it | interpreter, front end, checker |
| Model provider `model_provider.py` | call count, lock | `propose` | a transport |
| Process transport `model_provider.py` | child process, output so far | `exchange` | operating system |
| OpenAI adapter `openai_provider.py`, `openai_worker.py` | reserved amount | `exchange`, the worker's two requests | process transport, service |
| Bounded replay `bounded_replay.py`, `replay_worker.py` | limits in force, the nesting guard | `replay_bounded`, the worker | process transport, replay |
| Evidence `evidence_*.py` | keys, trust policies, envelopes | sign, authenticate, verify | bounded replay, files |
| File publication `evidence_files.py`, `cli.rs` | directory entries | `write_new`, `publish` | file system |
| Projects and command line `project.py`, `cli.py` | the files of a directory | `init`, `run`, `demo`, `reconcile`, `inspect`, `replay`, `check`, `build` | everything above |
| Rust checker `foresee-semantics` | as in Python, with a cap on diagnostics and a stage | check at a stage | Rust front end, language server |
| Language server `lsp.rs` | initialized, shutdown, open documents | one handler per message | an editor |
| Rust front end `foresee-syntax` | as in Python, with budgets | lex, parse | Rust checker |
| Rust lowering, canonical identity | none | lower, encode | Rust checker |
| Conformance suites, tools, packaging | none | tests | everything above |

What is hard, and what makes each part correct:

* **Catalog.** Connections of several processes interleave between the
  statements of a transaction; a caller that was interrupted repeats its call;
  the database commits and the caller sees an error. Correct: at most one receipt
  for an operation, no update lost, a stale answer only when the target moved
  on, rows and revision and receipt together or not at all, every answer the one
  the ledger holds, and every call returns.
* **Journal.** Two databases and no transaction across them: a process may die
  between any two writes, the file at the target's path may be another one by
  now, several reconcilers may work at once. Correct: the intent is durable
  before the effect, what the journal records as an effect happened, a run in
  doubt is never reported as settled, and repeated reconciliation converges.
* **Checker and interpreter.** The checker tracks which snapshot a value
  descends from and which selection a name stands for; the interpreter does not,
  and relies on it except for selections, which it guards with tokens of its
  own. Correct: an accepted program never meets the interpreter's internal
  errors, commits only what was proposed, tried and chosen for the snapshot it
  commits against, and performs only declared effects.
* **Two compilers.** The native one grew in stages, each of which leaves some
  rules to the next, carries its state differently and keeps a bounded number of
  diagnostics. Correct: after any errors, each stage still finds what the
  reference finds and infers the same types; the lowering meets the expressions
  in the order in which the checker numbered them.
* **Reports and replay.** A run may stop anywhere, and a file may be changed
  afterwards, checksum and all. Correct: a complete report tells of every call of
  the adapter; replay reproduces a complete report of a program the checker
  accepts; and what a reproduced report says its run computed, it did compute.
* **Front ends.** Two lexers and two parsers written independently, one of them
  under budgets checked at different moments; keywords are matched by value,
  whatever the token is; replay prints recorded programs by hand and their texts
  by JSON's rules. Correct: both read the same language within the budgets, and
  what was accepted reads back as the same program.
* **Model calls.** Deadlines race answers, two threads race for the last call,
  the service bills what nobody waits for any more, or more than it was asked
  for. Correct: no interleaving exceeds a budget, whatever is billed for what was
  asked for was reserved, and late, foreign or excessive answers are never used.
* **Evidence.** Files change between two reads, signatures are put on other
  statements, validity windows touch, commands die while they publish. Correct:
  a satisfied verification stands for a trusted endorsement that is valid now
  and a report that replays; an exit status tells what is on disk.
* **Bounded replay.** The worker inherits limits that are absent, tighter or
  looser, may be refused its own, or dies of them; a guard counts brackets before
  a parser recurses. Correct: nothing of a report is read before all limits are in
  force, the guard and the parser agree on what nests, and only a whole answer of
  a worker that read everything is a success.
* **Projects.** Commands run next to each other on one directory, are killed
  half-way, and leave files that later commands read. Correct: nobody runs on a
  half-made project, exit statuses and intact reports tell what the target and
  the journal hold, and a finished input file is only changed by its user.
* **Language server.** The editor is ahead of the server; versions that do not
  grow, messages that make no sense, more documents than the limit, names longer
  than the limit. Correct: the
  screen settles on the editor's texts and no answer is about another text.

## 2. Modules

| Module | Models |
|---|---|
| `CatalogData` | contents, plans, requests, receipts: the data of the catalog and its pure functions |
| `AtomicCommit` | what the adapter promises: a commit is one step that repeats, refuses or applies |
| `CatalogStore` | `catalog.py` statement by statement: locks, transactions, interruption, outside writers |
| `CatalogInvariants`, `CatalogProofs` | its inductive invariant and the proofs |
| `Recovery` | `journal.py` with the part of `runtime.py` and `cli.py` that drives it: workers, crashes, reconcilers |
| `RecoveryInvariants`, `RecoveryProofs` | its inductive invariant and the proofs |
| `Lexer`, `NativeLexer` | `lexer.py` and the lexer of `lib.rs` with its budgets, on characters by class; how replay quotes texts |
| `Parser` | the productions of `parser.py` and, under limits, of the parser in `lib.rs` |
| `Documents` | what a writer types or changes in a program, read by both front ends; texts quoted and read again |
| `RecordedPrograms` | what the checker records of a program, printed by replay and read again |
| `DecisionLanguage` | expressions, statements, effects and method signatures |
| `Checker` | `compiler.py` as functions on a checker record |
| `Interpreter` | `runtime.py` and `replay.py` as functions on a machine record |
| `Decision` | writing, checking, running, saving, damaging and replaying a decision |
| `DecisionInvariants`, `DecisionProofs` | the properties of `Decision`, and the proofs of all but `ReproducedReportsAreTrue` |
| `RustChecker` | `checker.rs` at each of its four stages, as functions on a checker record |
| `Lowering` | `ir.rs`: the second walk of the native compiler, which gives each expression its type |
| `Compilers` | one program read by the Python checker and by the native ones, errors included |
| `CompilersProofs` | its inductive invariant and the proofs |
| `ProcessExchange` | `ProcessTransport.exchange` and the command it runs: output in pieces, helpers, deadline, kill |
| `ModelCalls` | `model_provider.py`, `openai_provider.py`, `openai_worker.py`: locks, budgets, the reservation ledger, the worker's requests, a service that bills late, and at times more than it was asked for |
| `ModelCallsInvariants` | its inductive invariant |
| `FilePublication` | `write_new` of `evidence_files.py`: temporary file, sync, link, unlink, and what others and a loss of power do to files |
| `Evidence` | `evidence_cli.py`, `evidence_workflow.py`, `evidence_auth.py`, `evidence_format.py`: making keys, signing, authenticating, verifying |
| `EvidenceProofs` | its inductive invariant and the proofs |
| `BoundedReplay` | `replay_bounded` and the worker: limits, the nesting guard of `evidence_format.py` next to the JSON parser, answers and deaths |
| `ExchangeProofs` | the proofs about both users of the transport, `ModelCalls` and `BoundedReplay`, with the inductive invariant of the second |
| `Projects` | `cli.py` and `project.py`: commands on one directory, step by step, with schema creation, seeding and opening of `catalog.py` |
| `ProjectsProofs` | its inductive invariant and the proofs |
| `LanguageServer` | `lsp.rs`: one handler per message, and an editor at the other end of the pipe |
| `LanguageToolsProofs` | the proofs about `LanguageServer`, with its inductive invariant, and about the front ends in `Documents` |
| `MCBodies` | the bodies of explorations the runs choose from |
| `MC...` | values of the constants for TLC |

How they compose: `CatalogStore` instantiates `AtomicCommit` with its committed
database for the abstract one; TLC checks and TLAPS proves that it implements it.
`Recovery`, `Decision` and `Projects` therefore take `Catalog.commit` as one step
that may raise before or after its effect. `Decision` extends `Checker` and
`Interpreter`, two translations of two implementations of one language, and its
properties say that they fit together. `Compilers` extends `Checker`, instantiates
`RustChecker` and `Lowering` and gives all of them the same statements.
`Documents` extends `NativeLexer`, which extends `Lexer`, and `Parser`, which is
both parsers under different limits: their productions are the same.
`RecordedPrograms` extends `Documents`.
`ModelCalls` and `BoundedReplay` extend `ProcessExchange`, whose actions leave the
callers' variables open: a thread in `propose` starts an exchange, runs it step by
step next to its command, and takes its outcome; so does `replay_bounded` with its
worker; the two are independent specifications (`Spec` and `ReplaySpec`), and their
proofs share a module. `Decision` takes a model's answer as a choice among lists of plans, or as
a failure, which is what `ModelCalls` allows. `Evidence` extends
`FilePublication`: a command's steps are interleaved with those of other commands
and of whoever owns the directory. It takes the outcome of a replay under limits
as a choice that is a success only for a report that replays, which is
`SuccessIsEarned` of `BoundedReplay`. `Projects` cuts the interpreter down to one
decision with at most one commit, whose details are in `Decision`, and
reconciliation to one receipt a run, whose details are in `Recovery`.

### State and code

`CatalogStore`: `db` is the committed database, `work` what an open transaction
sees, `writer` SQLite's RESERVED lock, `pc[c]` the statement connection `c` is
at, `request[c]` the arguments of its call and `answer[c]` what it returned.
Each action is one statement on the connection; `Interrupt` is an exception with
its rollback, or the death of the process, at that point. Digests are their
arguments. A row's pack price and units never change and are constants; a plan is
a set of patches, since their order is invisible inside a transaction.

`Recovery`: `runs` and `ops` are the journal's tables, `db` the databases there
are, `path` the one at the target's path, `pc[r]` the stage of run `r`'s worker
and `stage[k]` that of reconciler `k`. Identities that commit_identity
recomputes from a row's payload are a field, `intact`. The order of runs and
operations within a pass is left open, which includes the order of the code.

`Decision`: `source` is the program so far, `checker` the state of the Python
checker after it, `live` the interpreter, `offline` the replaying interpreter,
`catalog` and `receipts` the target, `calls` a history of the adapter's calls.
An expression nested in another is a `let` of its own, which both
implementations visit in the same order; a `let` numbers its binding. Only
beginnings the checker accepts are continued, since a refused program never runs;
a setting may waive some diagnostics, to see what the interpreter's own guards
hold. `Replay` waives none, since `reproduce` compiles the program again.

`Compilers`: `reference` is the Python checker and `native` has a record of the
Rust checker for each stage. Both implementations look at the declared effects
and at the place of the return before they visit the first statement, so
`header` is chosen first and says whether the only return will be the last
statement; `returns` holds the program to that. The diagnostics for effects that
are used but not declared come at `End`. Unlike `Decision`, a program goes on
after errors, since both checkers recover and visit the rest. `types` and
`expressions` are the types either has found, one for each expression; `lowerer`
takes them, statement by statement instead of once at the end.

`ProcessExchange`: `stage[c]` is the line of `exchange` a caller is at, `got[c]`
the length of its `output`; `running`, `open`, `helpers` and `written` are the
command's side, `running` together with what became of its children. Output is
counted, not kept. `ModelCalls`: `at[t]` is where a thread is in `propose`,
`calls` and `lock` are a provider's `_calls` and `_lock`, `reserved` and `ledger`
the transport's `_reserved` and `_lock`. Checking the budget and counting the
call are two steps, as are checking the limit and adding to it, so that the locks
carry the property. `tokens[t]` is the service's count of a request's input and
`accepted` are the generations it took on, with the tokens each used, which may be
more than were counted or asked for. `job`, `settled`, `billed` and `excess` are
histories: which reservation a worker runs on, what the service billed, and how
much of it was for such tokens. Error codes are one failure, and what validation
compares is the choice of its outcome.

`FilePublication`: `files` are the entries of the directories, with the command
that published them; `temp[c]` is a command's temporary file and `synced[c]` says
that its data is on the disk. `Evidence`: `pc[c]` is the line a command is at,
`args[c]` its command line, `first[c]` and `second[c]` what it read, `output[c]`
what it publishes. A signature is the pair of key and payload: nobody else can
make it, and it says nothing of another payload. `endorsed` and `accepted` are
histories of the signatures made and of the verifications that were satisfied.

`Documents`: `characters` is a source typed so far, which both lexers read;
`tokens` is a program of which `edits` tokens were replaced, inserted, deleted or
quoted at the `cursor`, which both parsers read. What decides how a character is
read is its class, so one or two stand for each. Each loop of a lexer is a
function of the number of its turns; it moves on in every turn, so that it has
ended after as many as there are characters. A parser is a table of productions
and one reader; a node is the sequence of what a production captured. `Read` is a
function of how many readings are within one another: no more than four begin at
one token, so `Deepest` is never reached.

`BoundedReplay`: `replayer[c]` is where the worker is and `result[c]` what the
caller got; `inherited[c]` and `limits[c]` are the worker's limits as found
and as they are, `set[c]` how far `_install_limits` got; `guard[c]` holds the
locals of the guard's loop, and `parser[c]` where a JSON parser is in the same
bytes, of which `read[c]` are read. The code guards all bytes before it parses
any; here both advance together and the parser counts only if the guard passes.

`Projects`: `proc[p]` is a command and the step it is at, in the order of
`InitSteps`, `RunSteps` and `DemoSteps`; `files`, `catalog`, `journal` and
`reports` are what is in the directory. Writing a file empties it first. A
process's name stands for the identifier of its run.

`LanguageServer`: `initialized`, `shutdown` and `documents` are the fields of
`Server`; `unread` is the pipe. `session`, `buffer` and `screen` are the
editor's: what it has sent, its documents, the diagnostics it shows. Replies
arrive at once, since nothing the editor sends depends on them. A document whose
URI is over 4096 bytes (`LongUris`) is one the editor has and the server does not:
the server only logs messages about it, so the screen stays empty for it, answers
know nothing of it, and it takes no place among the open documents.

## 3. Runs

Deadlock is checked in `catalog`, `model_calls`, `model_calls_live` and
`bounded_replay`, whose callers can always call again. The others do not: workers,
reconcilers, decisions, commands, documents and sessions end.

| Run | Instance | Shows |
|---|---|---|
| `catalog` | 2 connections, 1 operation id and the default identity, 3 rows of which a trigger rewrites one (tests/test_transactions.py:109), 3 plans | no lost update, answers and ledger agree, snapshots are consistent, `AtomicCommit` is implemented and every call returns, under every interleaving with an outside writer |
| `recovery` | 1 run of up to 2 commits, 1 reconciler, 3 disturbances, workers stopped before a pass | recorded outcomes are true, intent before effect, settled runs are decided and complete ones stay so, and repeated reconciliation converges |
| `decision` | five settings: long programs (8 statements, 9 events of evidence), the same with room for 2 or 4 events, short programs with every expression, 2 snapshots and 3 declarations of effects, programs with F3400, F3103 and F3206 ignored and no journal, and programs with up to 3 snapshots next to their decision; one damage to a saved report | checker, interpreter, report and replay agree; commits are justified; tokens stop what an ignored diagnostic let pass, and replay refuses such a program; a report that is reproduced although it was damaged is true in what its run computed (see 5) |
| `compilers` | beginnings that are part of the documented program, mix snapshots or break a rule early, and up to two more statements of any form; 3 diagnostics kept | every stage of the native compiler and the Python reference agree on codes, their order and types, and what is accepted can be lowered |
| `syntax` | texts of up to 5 characters out of 14 kinds, budgets of a few bytes, tokens and errors; 4 programs that use every production, with up to 2 tokens in a row changed, lists of 2 and expressions 2 deep | both front ends read the same language; accepted programs read back from their records, and so does every text without a control character the language cannot escape |
| `recorded_text` | texts of up to 4 characters | expected violation: a text with such a character does not read back (see 5) |
| `model_calls` | 2 threads, 2 providers on one OpenAI transport and 1 with a command of its own, 1 call each, room for 1 reservation, generations that use 1 or 2 tokens of input and of output where 1 may | budgets, bills, whole answers, no process left, whatever command, worker and service do |
| `model_calls_live` | 2 threads, 1 provider of each kind | every `propose` returns |
| `bounded_replay` | 1 caller, reports of up to 8 bytes where 7 are allowed, nesting of 2, four environments of limits | readers are confined; a reproduced decision was earned |
| `evidence` | 3 commands, 2 keys, 3 reports, times 1 to 3, 2 outside disturbances | a satisfied verification stands for an endorsement, a replay and a current validity; exit statuses tell what is on disk; nothing is overwritten |
| `projects` | 3 processes with any of 7 commands on one directory, 1 change by the user | what each exit status of `init`, `run`, `demo`, `inspect` and `replay` promises is so, reports tell the truth, nobody runs on a half-made project, finished input files are kept |
| `language_server` | 2 documents where 1 may be open and 1 with too long a name, a text and one that is too long, 2 versions, 3 requests, 1 lapse of the editor, 2 unread messages | screen and answers fit the editor's own documents |

Bounds. Two connections are enough for every conflict of the catalog, which is
about one lock and one row of the ledger; reusing one operation id with another
plan or base is reuse with another intent. One plan repairs two rows, so that a
transaction can stop between them, one computes a wrong price and one is rewritten
by the trigger. Three disturbances cover a target that is replaced and put back,
and a damaged row of the journal. The shortest useful decision has five statements
(read, propose, explore, select, commit); eight leave room for an alias and for a
second selection and commit of the same exploration, and two snapshots with one
exploration are needed, and enough, to mix lineages; with a third, two may be of
no use to the decision and trade places in its report. The branch bodies are a
list: the documented one and one for each mistake a branch can make. The
candidate lists hold two plans of equal merit, a plan with a wrong price, one
for an unknown row, one that rewrites a title, a repeated and a malformed one.
An evidence limit counts events instead of bytes.
The native compiler keeps 64 diagnostics, the instance 3, so that programs of a
few statements overrun it; a program stops growing after five errors. The two
added statements are any `let`, annotated or not, under a fresh, used or reserved
name, any return, check or measure; the body of an exploration may hold an
exploration, and deeper ones repeat what those two levels do.
Five characters make a literal with an escape and something after it, or a name,
a number and a comment next to each other, and exceed each of the budgets. Two
changed tokens in a row can remove, double or swap any delimiter, and put a keyword
or a bracket where a string was.
A call of a model may cost a unit and a half at most and is reserved at two, so
that rounding down would not cover it; three units admit one reservation and
leave a rest that is smaller than the next. One unit of output fits the limit of
a command, two that of a worker, and up to three are written in reads of at most
two, so that answers end below, at and above each limit; in one call per
provider, checking and counting can already interleave.
Seven bytes hold a string with an escaped quote and one bracket more than the
depth allows after it. Calls of `replay_bounded` share nothing, so one caller is
enough.
A key is made, an envelope signed with it and verified by three commands; two of
them compete for one destination. Issue, expiry and the validity of keys lie at
1 and 3 and verifications at 1, 2 and 3, so that each bound is met from both
sides. Envelopes are put together from any payload and any signature made so far.
Three commands are one that makes a project, one that runs it and one that looks
at the result or competes with either.
With one document admitted and a second one refused, every case of the limit
occurs; two unread messages put the editor ahead of the server by a change and a
request. Nothing is known of a text that is too long, so two texts are enough to
tell an answer about one from an answer about the other.

Fairness. `catalog` assumes weak fairness of each step of a running call: the code
between two statements is sequential and SQLite's busy timeout ends every wait.
`recovery` assumes that a worker goes on unless it dies, that a pass of
reconciliation finishes unless it dies, and strong fairness of starting a pass,
which is what an operator who runs `reconcile` again and again provides. It holds
only if workers are stopped first, as docs/recovery.md asks: a run that is read
as started before its worker records an operation can otherwise stay `unresolved`
although its worker completes it later. For the same reason, and because a
reconciler writes the state of a run from what it read at its beginning,
`SettledRunsAreDecided` assumes stopped workers and `CompletionSticks` a single
reconciler. `model_calls_live` assumes that a thread inside `propose` goes on and
that time passes, and nothing of the command, the worker, its helpers or the
service: they may write forever, never end or keep the pipe open.

## 4. Proofs

`CatalogProofs` proves, for any sets of connections, rows, plans and operation
identities: the inductive invariant `IInv` (`Invariance`), type correctness,
`OneReceiptPerIdentity`, `NoLostUpdate`, `StaleMeansMovedOn`,
`SnapshotsConsistent`, `UnitArithmetic`, `AnswersMatchLedger`, `OneFreshAnswer`,
`LedgerAccountsForRevision` and the refinement of `AtomicCommit`. The safety
properties are not inductive: a transaction decides on what it read several
statements earlier. `IInv` adds what an open transaction may rely on. While a
connection holds the lock, `work` differs from `db` only by the statements
already run, the decision it is about to write (repeat, refuse, apply) is the one
`AtomicCommit` would take on `db`, and a revision stands for one content. Each
action then preserves each part, and `Commit` turns the decision into the
abstract step.

`RecoveryProofs` proves, for any number of runs, databases and concurrent
reconcilers, the same for the journal: `RecordedOutcomeIsTrue`,
`IntentBeforeEffect`, `EvidenceWithinLimit`, `OnlyTheWorkerCompletes`, types,
and, if workers are stopped first, `SettledRunsAreDecided`. `IInv` says that the
journal holds exactly the operations its workers counted, that a worker between
`prepare` and `record` agrees with its row, that what a reconciler has fetched is
still true when it records it (receipts are never removed), and that a pass
accounts for every operation of its run. `CompletionIsKept` proves
`CompletionSticks`: with stopped workers and one reconciler, a completed run loses
that state only if one of its operations is recorded as unresolved. A pass judges
a run by the state it read at its beginning and by what it found since, so the
invariant (`AloneInv`) says that nobody else moves either: the runs a pass still
holds are in the state it read, each of them once (`HeldOf`); the operations of the
current run are looked up once each (`LookupsOf`); and if it has counted one as
unresolved, there is one recorded as such that it will not touch again (`DoubtOf`).
That one reconciler is alone is used as any two of them being the same.

`ExchangeProofs` proves of `ModelCalls`, for any number of threads, providers and
calls, any sizes of limits and reads and any prices: `BilledIsReserved`,
`CallsWithinBudget`, `AnswersAreWhole`, `NothingLeftBehind`, `PlansAreEarned` and
types. `IInv` says what each stage of an exchange knows of its command (in
particular that nothing is left to write once the output has ended), that a
thread inside `propose` holds its provider's lock and, between check and
reservation, the ledger's, and that a job is with the service exactly if its
worker has sent it, once. Then what is billed for what was asked for is at most
the number of billed jobs times the highest price of one, and jobs are as many as
reservations. docs/openai-provider.md:37 warns that "reported usage above a
configured token cap rejects the result, but rejection cannot undo a charge already
incurred": that part is `excess`, the tokens of input beyond the service's own
count and those of output beyond `max_output_tokens`, at their price.
`BilledIsReserved` says that nothing else comes on top of the reservations, and
`PlansAreEarned` that no such result is taken. That the configured prices cover the
real ones is the user's part (the same paragraph) and an assumption of the model,
where both are one constant.

Of `BoundedReplay` it proves, for any number of callers, any limits asked for and
inherited, reports of any length and any depth: `ReadersAreConfined` and
`SuccessIsEarned`. `ReplayIInv` relates guard and parser: as long as the parser has not
given up it is in a string exactly if the guard is, expects an escaped byte
exactly if the guard does, and is as deep; what it reached before stays below the
limit unless the guard refused. A worker past its limits has all of them, and an
answer that reports success was formed from a report read to its end.

`EvidenceProofs` proves, for any number of commands, keys, payloads, times and
places, and whatever others put into the directory: `SatisfiedMeansEndorsed`,
`ExitsTellTheTruth` and `NothingIsOverwritten`. `IInv` says that signatures exist
only of endorsed payloads, that what a command has read and prepared is what its
line of code allows, and that a command's temporary file and its published entry
are its output, unless the directory was disturbed.

`LanguageToolsProofs` proves two things. The first is `EditorAndServerAgree`, for any number of documents,
texts, versions and requests, any limit on open documents and any length of the
pipe. What makes it true is not visible in one state: a message that is still
unread decides what the screen will show. `IInv` therefore speaks of runs, the
states the server passes through while it reads the unread messages in order:
every run of the first messages meets only requests whose answer fits, and every
run of all of them ends in a state that agrees with the editor (`Ahead`). A step
of the editor appends a message and extends the runs at their end; a step of the
server takes the first message and cuts them at their beginning. `Answered` says
that a request is unread or answered, and `Pipe` what the pipe can hold.

The second is that the two front ends read one language, `FrontEndsAgree`, and
that quoted text reads back, `PlainTextReadsBack`, for sources, texts and programs
of any length, any alphabet, any budgets and any limits. The state says nothing
here (`Drafted`: a text and a list of tokens); the work is in the functions. The
loops of the lexers are functions of the number of turns made, and what holds of
them is proved by induction over that number (`Climbs`). `Abreast` compares the
two lexers after as many turns: they stand at the same place of the source with
the same tokens and errors, or the native one has already given up with a code
only it has (`Marked`). `Alike` allows for tokens that differ after an error, since
the native lexer keeps the token of an unclosed literal and no tokens are given out
when there are errors, and `Together` for a character outside ASCII the native
lexer is about to refuse. Literals are compared in the same
way, turn by turn within a turn (`LiteralsAlike`). The parsers are one reader
under two limits, and a reading is a function of how many readings may be within
one another. If readings of at most n levels are `Parallel`, which is that they
agree or the native one was `Turned` away by a limit, so are those of n + 1: the
items of a production one after the other (`FollowsSimilar`), a list as its first
item and the rest (`ListsSimilar`), an expression and every other rule
(`ExpressionsSimilar`, `ItemsSimilar`). Quoting is followed character by
character: what is written for it starts where the lexer stands (`QuotedAt`), and
the lexer reads it back as itself or as an error (`ReadsWritten`), so that after k
characters the literal holds k characters or there was an error (`Behind`).

`ProjectsProofs` proves, for any number of processes and changes by the user:
`ReportsTellTheRun`, `ExitsMean`, `FinishedProjectsOnly`, and `FilesAreKept` as an
action property. `ExitsMean` is what each exit status promises: 0 of `init` that,
until the user changes something, the files and the target it was asked for are
there; 0 of `run` an applied receipt, a completed run and an intact report, 2 an
intact report of another outcome; 0 of `demo`, which says nothing of the outcome, a
run the journal tells of, with its receipt if it was applied; 0 of `inspect` and
`replay` of a run of the project its intact report, for `replay` of a complete run.
Of 1 nothing is promised, and the statuses of `reconcile` belong to `Recovery`.
`FilesAreKept` is about the three input files, which are created exclusively;
`run-report.json` is emptied and written by every `demo`, and what an intact one
says is `ReportsTellTheRun`. `IInv` says that one process at most is making the project and
that the files are as far as it is (`Making`); which parts of the target are
there at which step of `init` and `demo`, as long as the user has changed nothing
(`Equipped`); what journal, receipt and report hold at each step of a run
(`ToldOf`, `Reported`); with which code a command leaves (`Exited`); and that
reconciliation only settles what the journal lists (`Listed`). What `init` promises
needs one thing more: a file it has written stays as it wrote it, and what it has
put into the target stays there, since others meet the files it has begun and only
the user removes a target (`MadeSoFar`). No process knows of
the others: each part speaks of one process and the directory, and what other
processes do preserves it because they create files exclusively, write receipts
and reports under their own run, and settle an operation only from its receipt.

`DecisionProofs` proves, for any program, any bodies of its explorations, any
candidates a model proposes, any budgets and any number of outside writes, first
`SelectionsAreSpentOnce` and `CompleteReportsTellAll`. No diagnostic of the
checker is used: both hold of programs it would refuse, which the interpreter
meets as a recorded intermediate representation. `RunInv` says where in its
program a run is (`Program`), that a name which stands for a selection stands for
one the machine issued and that whatever reached the adapter is spent (`Tokens`),
and that the events tell of every call, in order, unless the run has ended in a
way that says otherwise (`Told`). Most steps are `Quiet`: they end the run or add
one event that is no commit and never give a token back; the seven ways a commit
can go are the others.

It then proves what the checker is for, `OnlyDeclaredEffects` and
`CommitsAreJustified`: the interpreter looks at neither declared effects nor
origins, so both rest on what the checker accepted. `Accepted` is the checker's
side: by an induction over statements, and over the statements of a body within
one, checking only extends the checker (what is reported stays reported, effects
and snapshot numbers only grow), so a statement that was accepted is `Vetted` by
the checker as it stood then; names are bound once and every snapshot has a
lineage of its own. `Justified` is the interpreter's: names of one lineage stand
for one snapshot and the plans proposed for it, a trial is recorded as it was
evaluated, and of the eligible trials of an exploration, whose metrics are natural
numbers, the selected one is the best. Hypothesis: a setting may let programs
run in spite of some diagnostics, never of the `Essential` ones, those of what the
interpreter does not look at again. The command line runs no program that has a
diagnostic.

Third, `CompleteReportsReproduce`: a run leaves enough in its events to be
repeated without catalog, provider and budget. `Reproducible` says so of every
moment of a run: for any record that begins with the events so far, the steps of
replay lead from its initial machine to the `Image` of the live one, the same
machine but for record and budget. This is the simulation argument between the
two ways of observing, and it has one lemma per operation (`Repeats`): what an
operation recorded is what the offline operation reads and the recorded value
makes it do the same. It holds as long as nothing was left open, that is unless a
call could not be told (`Telling`); this is when a report is not complete. The
second half is that receipts are consistent (`ReceiptsTell`), since replay
computes what a receipt must say. A report nobody touched is then `Following`:
its replay is one of the machines on that way, and as replay is deterministic it
ends in the image of the run. Nothing of this argument depends on the checker, and
runs that end without a commit or with a stale one are included; but replay begins
by compiling the program again (replay.py:117), so a report is reproduced exactly
if it is complete and the checker has no diagnostic of its program. What a setting
waives for a run is not waived for its replay.

Last, `AcceptedProgramsRun`: a program without diagnostics never meets the
refusals the interpreter keeps for itself (`internal`). This is type soundness.
Progress is that no operation, given values the checker expects (`Arrives`), is
refused; preservation is that what the checker knows afterwards is again true of
the machine (`Sure`): names have the kind they were given, snapshots are of the
declared resource, trials have the metrics a requirement or an objective may ask
for, and a token that is spent belongs to a selection the checker has marked as
consumed, under whatever name. The last is why aliases need an argument: names of
one selection share its identity in the checker exactly if they share its token
in the machine. `Correct` and `ErrorsFacts` say what the absence of a report means
at an expression, `Approved` at a statement, `BodyApproved` for the body of an
exploration; `Chain` is the sequence of checkers after each statement, and `Sure`
relates the machine to the one before its statement. A trial is run by a machine
of its own, and `TrialMeans` says that it ends as a trial or is rejected and is
never refused: it meets exactly one simulation, as the checker counted them
(`SimulatesOnce`). The argument rests on `Justified`, for what snapshots hold, and
on `ReceiptsTell`. Its only hypothesis is the property's own: the setting waives no
diagnostic.

`CompilersProofs` proves `CompilersAgree` for any declarations and effects, any
first statements, any number of statements after them, over any names, and any
number of diagnostics the native compiler keeps. The property compares only what
the compilers answer; what makes it inductive is `Follows`, which compares all they
know. A native checker follows the reference if it binds the same names to the same
types, where a type's identity of a selection is consumed in the one exactly if it
is in the other; if it stands in the same exploration, counts the same snapshots
and selections and, as far as its stage keeps them, the same effects; if what it
told is what the reference told without the codes of later stages, cut off at the
limit; and if its table of types is the reference's, but for the rows of the
expressions it is inside of (`pending`), which it numbers before and describes
after their operands. `StatementsAgree` says that a statement of any form keeps
this, for each of the levels a program has: a statement of a decision, of an
exploration, of one within that. The three use one argument with the level below
as hypothesis: what an expression adds to codes, rows and books is computed on both
sides (`OwnErrors`, `OwnRows`, `Accounts`) and compared operation by operation
(`Inferred`), and a body is an induction over its statements. The limit is why
codes are compared as what is added (`Adds`): cutting off after each code is
cutting off at the end. `Analysis`, which sorts the rows, then gives back the
reference's list (`AnalysisFacts`), as numbers and places are the same.
For the lowering, `KeepsUp` says that while the reference has reported nothing the
lowerer has taken as many rows as there are types, all of them fitting: the walk
of `ir.rs` is the order in which types are found (`StatementsLowered`), and no type
is an error (`Clean`). An accepted program is one of which the reference has
reported nothing (`AcceptedIsLowered`), since a list of codes that is empty after
the limit was empty before. Of programs with bad declarations, only these are
compared, and `OnlyDeclarations` says that the reference's first codes are they.

Assumptions are those the modules state as ASSUME and TLC evaluates: besides the
ranges of the constants, that documents are finitely many, that names which
stand for the contents of a report that is not a run's own are no names of
processes, that no plan, outcome, failure or name is the value that stands for
none, that declarations, bodies and first statements are lists of what the
parser makes, with explorations no deeper than the model's two levels, and that a
character is of one kind, a symbol of two characters is made of symbols and is not
the beginning of a comment, and a budget is at least one.
Only model-checked: liveness (`CallsReturn`, `EventuallySettled`,
`ProposalsReturn`), which is out of the prover's reach; that a recorded program
is printed and read back (`RecordedProgramsReadBack`), since the printer is
recursive over programs, that is over data; and of `Decision` what a reproduced
report is good for if it was damaged (`ReproducedReportsAreTrue`; see section 5).
The other way round,
what `RecoveryProofs` says of several runs and concurrent reconcilers is proved,
and the run has one of each.

## 5. What is left out

Text: wording, JSON encodings, digests (a digest is its argument). Processes that
leave their session, and process numbers reused between the end of a command and
the kill. `Journal.prepare`'s check that journal and target are different files.
Copies of a database that share its identity. In the language: the checkers meet
only operands that are bindings or expressions, wrong numbers of arguments only in
calls, and explorations nested two deep (the parsers meet all of them), and the digest of the
intermediate representation is not computed. Of evidence: the cryptography,
ownership and permission bits of key files, errors of `unlink`, and
`evidence-public-key`, which only reads. Of projects: `check` and `build`, which
compile one file and print or write it, the option to name an entry or a run, and
the contents of sample rows: that two demos which both find none cannot put them
there twice is the table's primary key, which the model takes as the second one's
error.
Of the language server: framing and positions. Not modelled at all: the
conformance suites and the differential tests in `tools/`, which are fixed
sequences of calls that the modules here take among all others, and packaging.

A disagreement of code and documentation, shown by `recorded_text`. Replay
rebuilds the source of a report and compiles it again (docs/offline-replay.md:14).
It quotes texts with `json.dumps`, which writes a control character as `\f`,
`\b` or `\u00XX`; the language has no such escapes and refuses them with F1003,
although it accepts the character itself in a literal. A complete report of a
program with one in a prompt or a message can therefore not be replayed.
`PlainTextReadsBack` says that nothing else stands in the way.

A second disagreement, which a passing run meets. docs/offline-replay.md:19 says
"missing, reordered, or trailing events are rejected by replay even if the outer
checksum was recomputed". Replay compares what it computes with what is recorded;
of what came from outside (the rows of a snapshot, the plans of a proposal, the
operation and outcome of a commit) it can only notice what something computed later
depends on. In the run `decision`, a program of the setting `Watching` may read
three snapshots of which its decision uses one; if the other two differ and change
places in its saved report, replay reproduces the report. So the sentence is true
of events that are missing or trailing, and of reordered ones unless they are of
one kind and nothing computed depends on them. What the code does guarantee is
`ReproducedReportsAreTrue`: a reproduced report, damaged or not, has as many events
as its run had, of the same kinds in the same order, and everything the run
computed (explorations, trials, selections, the content of commits, the summary) is
what it computed.

Three consequences of the code that the models show and no property forbids. A
command killed between `link` and `unlink` leaves its key with two names, and
`load_key` refuses it from then on until somebody removes the temporary name;
docs/evidence-cli.md:65 speaks of a reader who may see this transiently and
excludes the recovery of temporary files. A document refused at the limit of the
language server stays refused when there is room again, until the editor sends it
once more, as docs/language-server.md says. A run killed between completing in
the journal and writing its report is `completed` without a report.

## 6. Plan

What is left:

1. The Rust compiler's `build`, which publishes with the protocol of
   `FilePublication`.
