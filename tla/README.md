# starlark-python in TLA+

A verification development for `src/`, a tree-walking interpreter for Starlark
in pure Python with a small embedding API (`compile`, `Program`, `exec_file`,
`eval`, `FileLoader`). TLA+ modules model the parts of the interpreter that
keep state; TLC checks them on small instances; TLAPS proves the theorems at the
end of this page for every value of the constants. Paths below are relative to
`src/src/starlark/` unless they begin with `src/`.

Contents: 1 the system, 2 modules and how they correspond to the code,
3 the runs, 4 bounds, 5 fairness, 6 proofs, 7 where code and documentation
disagree, 8 what is not modelled, 9 the plan.

## 1. The system

A source is lexed and parsed into an AST (`syntax/`), the AST is resolved in
place (`syntax/resolver.py` writes `Identifier.binding`), and the evaluator walks
it (`eval/evaluator.py`). Python's own control stack is Starlark's control
stack; `return`, `break`, `continue`, errors and exceeded limits are Python
exceptions that pass through `try / finally` clauses on the way.

| component | state it keeps | operations | talks to |
|---|---|---|---|
| `Program`, `exec_file`, `eval` (`program.py`, `__init__.py`) | one AST, one re-entrant lock | compile, eval, exec | resolver (in place), evaluator, host builtins that call back |
| `Thread`, evaluator (`eval/evaluator.py`) | steps, allocs, depth, frames, active functions, one-shot callbacks | tick, add_allocs, statements, expressions, calls | ContextVars, builtins, limit callbacks, loader |
| context (`eval/builtins.py`) | `_CURRENT_THREAD`, `_CURRENT_MUT` | with_thread, with_mutability, call from Python | everything that charges or creates values |
| values (`eval/values.py`, `collection_methods.py`) | items, iteration and mutability token of each container; `_EQUAL_SEEN` | mutation, iteration, equality, hashing, ordering, repr | Mutability, allocation counter |
| `Mutability`, `Module` (`eval/mutability.py`, `module.py`) | a frozen flag, globals | check, freeze | every mutating operation; loader |
| `FileLoader` (`eval/loader.py`) | cache: name to module | load | exec_file, Module.freeze |
| functions (`eval/function.py`) | parameters, defaults, closure | bind_arguments | evaluator, resolver's cells |
| parser (`syntax/parser.py`) | token position, nesting depth, the process's recursion limit | parse_file, parse_expression | lexer, `sys.setrecursionlimit` |
| resolver (`syntax/resolver.py`) | scopes, blocks, errors | resolve_file, resolve_expression | AST |
| lexer (`syntax/lexer.py`) | indent stack, bracket depth, pending tokens | tokenize | parser |
| JSON (`eval/json_module.py`) | position and depth of the decoder | encode, decode, encode_indent, indent | values |
| string methods, conversions, command line | none | pure functions, I/O | values |

**Threads.** The threat model (`src/security/threat-model.md`) and the docstrings
allow several OS threads to run Starlark at once. What they share is a `Program`
(guarded by a non-blocking lock), a `FileLoader` (not guarded), frozen values and,
through them, `_EQUAL_SEEN` (not guarded), and the interpreter's recursion limit
(not guarded). ContextVars are per thread.

**Re-entry.** A host builtin, a limit callback or a `load()` may start another
evaluation in the same thread, of another program or of the same one.

**Failure.** Anything may raise anywhere: an `EvalError`, a limit error, a
`RecursionError` or `MemoryError`, whatever a builtin or a callback raises. What
has to be right afterwards is the bookkeeping: counters, locks, ContextVars, the
cache, the record of pairs being compared.

What makes each component correct:

* Program: the lock is exact on every path; an evaluation reads the environment
  it was called with.
* Evaluator: bookkeeping mirrors the control stack after every exception;
  recursion is rejected; callbacks fire once; an exceeded limit stays exceeded;
  evaluations end; a nested evaluation does not disturb the outer one; what is
  meant for the inside (control-flow signals, `RecursionError`) does not get out.
* Values: equality is that of the (possibly infinite) unfolding of the values.
* Mutability: what is frozen never changes; what a module delivers is frozen all
  the way down.
* Loader: only complete, frozen modules are cached; cycles and failures leave
  nothing behind; a name is one module.
* Containers: an operation has the effect the language promises or leaves a prefix of
  it; insertion order survives deletions; growth is charged; a loop passes over nothing.
* Functions: a call is accepted if and only if every parameter has exactly one value.
* JSON: a text is read as what it denotes or refused; what is written reads back.
* Lexer: INDENT and OUTDENT balance, tokens cover the text and end where it says.
* Parser: it accepts what the grammar does, reports what it recovers from, ends, restores
  its depth; deep sources end in a syntax error and the process is left as it was.

`PROJECT.json` lists the hazards behind these, each at its line with the
properties that cover it, or the reason why none does yet.

## 2. Modules

Each component has a module with its VARIABLES, one action per operation, and
its properties; an `MC` module gives the constants that need definitions; a
`Proofs` module holds theorems (`ProcessProofs` those about `Nesting` and `Equality`,
`SyntaxProofs` those about `Lexer` and `Parser`, `StackLemmas` what all of them
need of sequences). `HostThreads` declares the one constant, `Threads`, that
`Program`, `Nesting`, `Equality` and `Loading` have in common. Definitions named `...mutant` in comments are
deliberately wrong variants of an action that stand beside it: every property of
every passing run is shown to fail when the right variant is replaced by one of
these.

| module | models | state and actions |
|---|---|---|
| `Evaluator` | `Thread`, the recursive functions of `evaluator.py`, `with_thread`, `_call_starlark`, exception conversion in `call` and `Program.exec` | `stack` is Python's control stack: activations of a file, a statement, a `for`, an expression, a call, a builtin, a limit callback, each with its evaluation. `ExecStmt`, `EvalExpr`, `CallFunction`, `CallBuiltin` push one (ticking first); `Return` and `Unwind` pop one and perform its `finally` clauses (`Finally`); `Passed` is what its `except` clauses make of an exception, `Raise` whatever Python, an operator, a builtin or the host's loader raises. `Charge` and `StepLimitHit` are `add_allocs` and the failing `tick`, which run a callback or raise. `StartEvaluation` pushes a file activation that remembers the ContextVar's old value |
| `Program` | `Program.eval / exec`, the in-place resolver, `_read_name` | `owner`, `count`: the RLock. `binding`: what the resolver wrote last. `runs[t]`: the calls thread t is in, each with its environment. `Enter` (or `Refused`), `ResolveName` per identifier, `ResolveFails` (an undefined name at the end, a `RecursionError` half-way), `Assign`, `Read`, `Finish` |
| `Nesting` | `Parser._enter`, `setrecursionlimit`, the recursion of resolver and evaluator | `limit` is the one recursion limit. `SaveLimit`, `RaiseLimit`, `Nest` (one construct deeper: frames, then the cap), `EndParse` (restore), `Walk`, `EndWalk` (resolver, then evaluator, whose depth `DepthBelow` counts expressions only) |
| `Equality` | `equal()` with `_EQUAL_SEEN` | per thread, the calls of `equal` on containers with the keys still to compare. `Ask`, `CompareItem`, `Leave`, `Answer` |
| `Publication` | abstract: what `load()` promises | a module is published once, with a graph that never changes |
| `Freezing` | tokens, containers, modules, `load()` as far as freezing goes, `freeze` of the test driver | `owner[o]` is an object's token, `frozen` the frozen tokens, `globals[m]` what a module holds. `Operate` is any operation of the running module on what it can reach: create, collect `**kwargs`, combine by an operator, store, discard, replace in place. `Deliver` freezes, caches and imports |
| `Loading` | `FileLoader` shared by threads | `stack[t]`: the files thread t is executing. `Start`, `Hit`, `Miss`, `Freeze`, `Keep`, `Finish`, `Fail` |
| `Lexer` | `Lexer.next_token` with the layout it works out | `mode` is the loop the scanner is in, `pos` where; `indents`, `dents`, `depth` are `_indent_stack`, `_dents`, `_paren_depth`; `out` the tokens returned. One action per turn of a loop: `Indentation`, `Settle`, `Dent`, `Operator`, `Bracket`, `Newline`, `Word`, `String`, `Escape`, `Number`, `End` and so on; `LexStep` is their disjunction |
| `Parser` | the parser on top of the scanner, and `compile` | `todo` is Python's stack as a list of goals, `tok` the token of lookahead, `errors` the list it shares with the scanner, `recovery`, `nesting`. `Fetch` and `Scan` ask for a token; one action per production replaces the goal on top; `Complain`, `Sync`, `Skipped` are the error recovery, `Enter` and `Leave` the depth; `Retry` is the second attempt of `compile` |
| `Grammar` | the grammar of `src/docs/spec.md` | reference: a table of rules and when a rule matches part of a text |
| `Syntax` | what `compile` promises | compares the verdict of `Parser` with `Grammar` |
| `Collections` | what `src/docs/spec.md` promises of each operation of a list, dict or set | reference: relations between contents before and after, and when an operation fails |
| `Containers` | one list, dict or set, its methods and augmented assignments, the loops over it | `slots` is Python's table with the gaps deletions leave; `loops` the iterators of the running loops. `Call` looks an operation up and performs all of it (`OfList`, `OfDict`, `OfSet`: checks, writes and charges in the order of the code); `StartLoop`, `NextItem`, `EndLoop`, `Changed`, `Freeze` |
| `Binding` | `_eval_call` and `bind_arguments` | `EvalPositional`, `EvalKeyword`, `EvalStar`, `EvalStarStar` take one argument of the call each; `BindArguments` makes the locals or raises |
| `JsonGrammar` | the grammar of RFC 8259, and which value a text denotes | reference: a numeral by its parts, a string by its characters, a list and an object by the ways to cut them at their commas |
| `JsonText` | `json.decode`, `json.encode`, `json.encode_indent` | `pos` is the decoder's position, `open` its calls of `_array` and `_object` with what they have collected, whose number is `depth`; `Scalar`, `OpenContainer`, `Key`, `More`, `EndOfInput` take the text apart, `Reject` is any `EvalError`. `EncodeValue` and `IndentValue` are the two encoders |
| `Scoping` | frames, closures, comprehensions: the resolver's blocks and the evaluator's dicts | `blocks` are the bodies of modules, functions, lambdas and comprehensions entered so far, `dict` their `Frame.locals_`, `saved` what a comprehension hid; `cell` is the reference, the variables of lexical scope. `Exec`, `Call` (copies free variables), `Assign`, `StartComp`, `NextItem`, `Leave`; `Read` is `_read_name`, `Lexical` what it should return |

How they compose. The nested evaluations of `Evaluator` are what `Program.Enter`
and `Loading.Miss` start; `Evaluator` shows that starting and ending them is
invisible to the outer Thread, so `Program` and `Loading` may leave Threads out.
`Freezing` and `Loading` model two aspects of one `load()`, the values and the
cache. `Scoping` is what happens to names in the calls of `Evaluator`. `Freezing` and
`Loading` both refine the same abstract module, `Publication`: `Freezing` with the
graph of values reachable from a module's globals, `Loading` with the cache
itself.

What is abstracted. `Evaluator` chooses nondeterministically what code does next
and which exceptions are raised where (`MayRaise` says which can be), so it covers every
program; what the program computes does not appear. `Program` keeps of the AST
the identifiers read at the top level. `Nesting` keeps of a source how its
constructs nest: `bracket` and `suite` (counted by `_enter`); `suffix`, a call or an index,
whose operand is left before its brackets are parsed, and `prefix` (`not`, `lambda`, the
`else` of a conditional), which the parser recurses into without counting; `chain` (operators,
attributes) and `elif`, loops of the parser that make a deep tree. `Equality` keeps kinds, keys
and values of containers, and compares keys in any order. `Freezing` keeps of a
container the set of its elements. `Loading` keeps of a file which files it loads.
`Scoping` lets code mention every name and lets any function of any block entered so
far be called; functions at one level bind the same variables; one argument value
stands for all arguments of a lambda, and parameters of a `def` are variables assigned
first.
`Lexer` abstracts a character to its class: one letter stands for all but those that
mean something (`r`, `e`, `f`), a keyword is one character, one quotation mark stands for both, hexadecimal for the other
radixes. `Parser` keeps of the trees only whether an expression is a name. `Containers`
keeps of a value whether it can be a key, counts a charge in entries, and chooses how
many an operation may pay for. `Binding` keeps of a value which argument it came from.

## 3. The runs

| run | question | result |
|---|---|---|
| `Evaluator_nested` | Does the bookkeeping of two evaluations, one inside the other, survive every exception, callback and limit? Does everything end? | holds: `ContextIsInnermost`, `EscapesContained`, `NoRecursion`, `RecordsMirrorStack`, `CallbackFiresOnce`, `NestedIsIsolated`, `LimitStopsProgress`, `Termination` |
| `Process_shared` | Two threads share a Program, with re-entry, and any environments in which no name is both predeclared and universal: is the lock exact and does every read see its own environment? Sources with any nesting of counted constructs and few others (`CapsFit`): do the caps fire before Python's limit, and is the host's limit restored? | holds: `LockMirrorsRuns`, `ReadsOwnEnv`; `HostContract` for one thread; `LimitKept`: restored for one thread, never below the host's for any number |
| `Nesting_suffixes` | Calls or indexes deep in one another: does the parser's cap fire before Python's? | `HostContract` is violated in the parser |
| `Equality_shared` | Two threads that compare the same values: are their answers right? | `AnswersRight` is violated |
| `Freezing_loads` | Three modules that load each other: is everything delivered read-only, for ever? | holds: `LoadedIsDeepFrozen`, `FrozenForever`, `PromiseKept` (refinement of `Publication`) |
| `Freezing_kwargs` | The same with `**kwargs` dicts | `LoadedIsDeepFrozen` is violated |
| `Loading_safe` | Every way three files load each other and fail, one or two threads | holds: `CacheIsSound`, `DeliveredFrozen`; with one thread `LoadedOnce` (refinement of `Publication`) |
| `Scoping_blocks` | Do dicts of locals and copies of free variables amount to lexical scope? | holds: `EntriesHeld` in every dict; `EnclosingReads`, `FarReads` and `GlobalReads` say in which cases a read is lexical |
| `Scoping_closures` | Is every read of an enclosing function's variable lexical? | `ClosureReads` is violated |
| `Syntax_sources` | Sources sound and spoilt, in every mode of `compile`: are layout, tokens and verdict right, is every recovery reported, does the parser end? | holds: `LayoutBalanced`, `TokensFitLines`, `TokensFitText`, `VerdictIsRight`, `RecoveryReported`, `NestingMirrorsGoals`, `Termination` |
| `Data_operations` | Every operation on every small container, under heap limits that strike in the middle; loops whose body changes what they iterate over; every call of 84 signatures with up to three arguments; JSON texts sound, spoilt and written by the encoders; every comparison in a heap of three small containers by one thread | holds: `OperationsKeepPromises`, `LoopsVisitAll`, `BindingIsRight`, `DecodesTexts`, `RoundTrip`, `AnswersRight`, `CyclesAreAnswered`, `SeenMirrorsStacks` |
| `Json_indent` | Does what `encode_indent` writes of a dict with a key that is no string read back? | `RoundTrip` is violated |

`Process_shared` checks `Program` and `Nesting`, two things that threads share; `about` says which of
the two a behaviour is of. In the same way `Data_operations` checks four modules that have nothing to do with each other: a
behaviour of `MCData!DataSpec` is one of `Containers`, of `Binding`, of `JsonText` or of
`Equality`, and `kind` says which. `AnswersRight` asks whether `equal` is bisimilarity.
`OperationsKeepPromises`, `BindingIsRight` and `DecodesTexts` compare with declarative references
that share no rule with the modules they judge (what a numeral and four hexadecimal digits
stand for is common to `JsonGrammar` and `JsonText`). `DecodesTexts` excepts texts
in which a `\u` escape has a sign among its digits (section 7). `OperationsKeepPromises` quantifies over all requests
in every state that the requests reach, rather than over the one that was made. It excepts
a list extended with itself, `LoopsVisitAll` loops whose body both adds and removes keys
or moves items, `BindingIsRight` a name given by `**` and then by name (section 7).

`Evaluator` and `Freezing` have a `TypeOK` that is checked and proved; those of `Program`,
`Loading`, `Lexer`, `Nesting`, `Equality` and `Scoping` are proved and no longer
checked, since the proofs rest on them; in the
other modules the type is implied by the properties. Deadlock is checked except in `Evaluator`, `Freezing`, `Loading`, `Scoping`,
`Syntax` and `Data`, where all evaluations, executions, compilations and calls, or the
modules and blocks of the bound, may simply be over.

`Nesting`, `Loading` and `Equality` choose a parameter in `Init` (`users`, the
threads that take part; `cap`, the depth cap) so that one run covers the
instances with one thread and with several. A property about one thread is
conditional on `Alone`.

## 4. Bounds

* `Evaluator_nested`: two evaluations and one function suffice for each hazard:
  recursion needs one function twice, isolation two Threads. Step limit 5 of the
  outer evaluation lets it enter an expression, call a function, call a builtin from
  it and come back to the same function; limit 1 of the inner one lets its limit
  error cross into the outer one. `MaxAllocs` 0 makes the first charge exceed.
  `MaxDepth` 2 is reached. `StepBound` and `AllocBound` cap the counters of an
  evaluation that goes on after its limit error has been caught; 20 is never the
  reason why a behaviour stops before its own limit does.
* `Program` in `Process_shared`: two names, of which one is assigned, are enough for every pair of
  scopes; `MaxNesting` 2 gives one re-entry per thread.
* `Nesting`, there and in `Nesting_suffixes`: 2 levels stand for 256, 3 frames for the 26 that a bracket or a suffix costs
  the parser, 1 for the two or three of a suite or a prefix, 0 for the turn of a loop that a
  chain or an `elif` is; a level of the tree costs the resolver 1 and the evaluator 2 (1 or 2,
  and 1 to 5, in the code). What matters is kept: the limit the parser asks for (`Need`) has room
  for `MaxLevel` + 1 counted levels and `MaxLoose` others, and both a host limit below `Need` and one above
  occur (`Bases`). `MaxLoose` 1 fits, 6 does not; `Fits` in the configurations says so and TLC checks it.
  With the numbers of the program (cap 256, `Need` 13 300, the default limit of 1000)
  `CapsFit` allows for about two hundred uncounted constructs in one another.
* Comparisons in `Data_operations`: three objects, up to two items each, all kinds; cap 1 is
  exceeded by nesting of two, cap 9 is the number of pairs and never reached.
* `Freezing_loads`: with three modules a value travels from one through a second to
  a third; two objects give containment and cycles.
* `Loading_safe`: three files with any loads among them contain every cycle up to
  length three and diamonds; four modules allow two threads to make the same file
  twice and fail.
* `Scoping_*`: names do not influence each other, so one name that any level may bind
  is enough; two values tell a copy from what it was copied from. Four blocks are a module, a
  function, one made in it and one made in that, or two comprehensions around a
  lambda; the deeper mixtures with five blocks and one value hold too (two minutes).
* `Syntax_sources`: `MCSyntax` has twenty programs that between them use every production,
  each of them with one character deleted, replaced by one of six that do most harm, or
  cut off anywhere; every layout of up to a few lines at three widths; and small strings,
  numbers and escapes. `MaxDepth` 4 is exceeded by some and not by others, `MaxErrors` 3
  is reached. `MCSpec` compiles a source in the modes that differ for it.
* `Data_operations`: three keys and two values, tables of three slots (`Room`), so that an
  insertion finds gaps before, after and in place of a rebuild; lists of four items with a cap of three
  (`MaxElements`), so that the cap is met from below and exceeded by `append`, which does
  not look at it; budgets 0, 1 and enough. One loop at a time (`MaxLoops`): loops over one
  container only meet through its slots. Calls: names before and after a star, with and without
  defaults, `*args`, a bare star and `**kwargs`, against all argument lists of up to three.
  JSON: `JsonDepth` 2 stands for 256, with values and texts one level deeper; every numeral made
  of up to one or two digits per part, exponents out of range included; strings of up to three
  characters or escapes and every continuation of a high surrogate up to four; twenty documents,
  keys given twice among them, each with one character deleted, inserted or replaced at every place.
  All 6 599 texts were given to the program (with its `MAX_DEPTH` set to 2), which returns the
  model's value for each, and the encoders write the model's text for every value.
  The outcomes of all 28 560 calls (accepted, and each kind of error) were counted in the model and in
  runs of the program, and agree.

## 5. Fairness

Only the two `Termination` properties need it. In `Evaluator`, `FairSpec` adds weak fairness of `Step`, the
disjunction of everything the Python interpreter does while an evaluation is on
the stack: it keeps executing whatever is innermost. Nothing says that any one
statement, call or error is eventually chosen, nor that the host starts
evaluations. `Termination` therefore rests on the limits alone: an infinite
behaviour must tick or charge for ever, which `max_steps` and `max_allocs`
exclude. It assumes that builtins and callbacks of the host return, or tick: `x.extend(x)`, which
grows `x` until memory is exhausted, is a call that the limits do not see (section 7).

In `Parser`, `Spec` has weak fairness of `Step`, the one thread that compiles: it does
not stop in the middle. That each loop of the error recovery consumes a token or ends
is then what makes `Termination` true.

## 6. Proofs

Checked by TLAPS for all constants that satisfy the named assumptions:

| theorem | statement | argument |
|---|---|---|
| `EvaluatorProofs!TypeCorrect`, `ContextCorrect`, `RecursionRejected`, `Isolation` | `Spec => []TypeOK`, `[]ContextIsInnermost`, `[](NoRecursion /\ ActiveMirrorsStack)`, `NestedIsIsolated` | `Inv` = `TypeOK` and `StackInv`, below |
| `EvaluatorProofs!CallbacksOnce`, `LimitIsFinal` | `Spec => []CallbackFiresOnce`, `LimitStopsProgress` | `ArmedUntilOver`, below; what enters anything ticks first |
| `EvaluatorProofs!ContractKept` | `Spec => EscapesContained` | `ExcInv`, below |
| `EvaluatorProofs!RecordsCorrect` | `Spec => []RecordsMirrorStack` | `Records` counts the activations of an evaluation; a push adds one, a pop takes away the one its `finally` clause accounts for |
| `ProgramProofs!LockCorrect`, `MutualExclusion` | `Spec => []LockMirrorsRuns`; two threads are never inside at once | `LockMirrorsRuns` is inductive with `TypeOK` |
| `ProgramProofs!SequentialReads`, `DisjointReads` | `Spec => []ReadsOwnEnv` without re-entry (`MaxNesting = 1`), and with re-entry when no environment predeclares a universal name (`Disjoint`) | without re-entry: every resolved name of the thread inside is bound for its environment (`OwnBindings`). With it: `_read_name`'s scan corrects every wrong binding, because a name that is not assigned is in one place only |
| `ProcessProofs!LimitCorrect` | `Spec => []LimitKept` of `Nesting`, for any number of threads | `Limits`, below |
| `ProcessProofs!CapsFireFirst` | `CapsFit => (Spec => []HostContract)` of `Nesting`: however many counted constructs nest, with up to `MaxLoose` others anywhere among them | `Rooms`, below |
| `ProcessProofs!RecordCorrect` | `EqualitySpec => []SeenMirrorsStacks`, for any number of threads, after errors and differences too | `SeenInv`: a recorded pair is on one stack, once |
| `ProcessProofs!AnswersCorrect` | `EqualitySpec => []AnswersRight` where one thread compares and sets hold atoms, for every heap, cyclic or not | `Judge`, below |
| `ProcessProofs!CyclesEnd` | `EqualitySpec => []CyclesAreAnswered` for lists, dicts and sets, any number of threads | a stack holds a recorded pair once, so it is no longer than there are pairs |
| `FreezingProofs!TypeCorrect`, `FrozenStays` | `Spec => []TypeOK`, `FrozenForever`, with `**kwargs` dicts | tokens are never thawed; a frozen value's token is only replaced by a frozen one |
| `FreezingProofs!DeepFrozen`, `KeepsPromise` | `Kwargs = {} => (Spec => []LoadedIsDeepFrozen)` and `PromiseKept` | `Owned`, below |
| `LoadingProofs!DeliversFrozen` | `Spec => []DeliveredFrozen` for any number of threads | `FrozenFirst`: what is cached, or past `module.freeze()`, is frozen |
| `LoadingProofs!LoadsOnce` | `Spec => LoadedOnce` | `OneAtATime`, below |
| `LoadingProofs!CacheSound` | `Spec => []CacheIsSound` for any number of threads | `Books`, below |
| `ScopingProofs!EntriesCorrect` | `Spec => []EntriesHeld` | `Scoped`, below |
| `ScopingProofs!EnclosingReadsCorrect`, `FarReadsCorrect`, `GlobalsCorrect` | `Spec => []EnclosingReads`, `[]FarReads`, `[]GlobalReads` | each read is one of an entry that `Scoped` accounts for: the variable itself, or a copy as old as the innermost function that has one |
| `SyntaxProofs!LexTypeCorrect`, `Balanced` | `LexSpec => []LexTypeOK`, `[]LayoutBalanced`, for any set of sources | levels, below |
| `SyntaxProofs!BalancedUnderParser` | `Spec => []LayoutBalanced` for the scanner as the parser drives it | a step of the parser leaves the scanner alone, moves it, or starts it over |
| `SyntaxProofs!RecoveryIsReported`, `VerdictFollowsReports` | `Spec => []RecoveryReported`; `compile` refuses a source if and only if something was reported | errors are never withdrawn but by `Retry`, which clears the flag with them; most productions are *mild*: they touch neither list nor flag |
| `SyntaxProofs!DepthIsRestored` | `Spec => []NestingMirrorsGoals` | goals, below |
| `SyntaxProofs!TextIsFit` | `Spec => []TokensFitText` | `FitInv`, below |
| `SyntaxProofs!LinesAreRight` | `Spec => []TokensFitLines` | `LinesInv`, below |

Hypotheses other than the assumptions of the modules are in the statements. `CapsFit`
(`Nesting`) says that the limit the parser asks for has room for one counted level more than its cap
lets pass and for `MaxLoose` constructs that it does not count, and the host's limit for the resolver in
a tree as deep as that; it asks nothing for the evaluator, whose `RecursionError` is converted; `SetsHoldAtoms` (`Equality`) that sets hold hashable scalars; TLC
evaluates both on the instances of the runs. `Kwargs = {}` and
`MaxNesting = 1` exclude what section 7 describes.

The inductive invariants, and why they are needed:

* `Evaluator`. `ContextIsInnermost` is not inductive: popping a file restores the
  ContextVar from the activation, so one must know what was stored. `StackInv`
  adds `Chain`: an activation that is not a file belongs to the evaluation of the
  activation below it, and a file remembers the evaluation below it, or none at
  the bottom. With it, every pop leaves the right value, whatever the exception.
  That a callback fires once needs to know when it was disarmed: `ArmedUntilOver` says
  that it is armed exactly as long as its limit is not exceeded. That no signal reaches the host
  needs to know where it will be caught: by `ExcInv`, `return` has a call below it, `break` and
  `continue` a loop, with nothing but statements in between, and a
  builtin, which converts the rest, is never the one that raises a signal. Since the counters of
  a Thread are kept by evaluation and activations of several evaluations lie on one
  stack, `RecordsMirrorStack` is about a cardinality: of the positions on the stack
  that are activations of the evaluation.
* `Nesting`. `LimitKept` is not inductive: what `EndParse` restores is what `SaveLimit`
  found. `Limits` says that what was saved is at least the host's limit and, for
  one thread, is the host's limit. `Rooms` relates the frames of a parser to its levels, the
  tree to the levels and the uncounted constructs, and the resolver's frames to the tree, so that the
  cap comes before Python's limit.
* `Equality`. An answer "equal" is given on the assumption that the pairs on the
  stack are equal, which is circular unless something is said of the pairs already left. `Grown`
  says that there is a relation that contains what was asked and every pair on the stack; outside
  the stack it is a bisimulation, and on the stack it is one as far as the items have been
  compared. When the stack is empty it is a bisimulation. `Links` says that a pair on the
  stack is an item of the pair below, so that a difference refutes everything down to what was asked.
* `Freezing`. That what is reachable from a delivered module is frozen is not inductive:
  a module that is still running is about to be delivered. `Owned` says of *every*
  module that its globals lie in a closed set of objects that carry the token of
  that module, or are frozen, and that only objects of modules still running are
  not frozen. Closure under items makes reachability go away, and freezing the
  module's one token at delivery freezes the whole set. A `**kwargs` dict has no
  such token: `Kwargs = {}` is exactly the assumption that fails in `Freezing_kwargs`.
* `Lexer`. That INDENTs and OUTDENTs balance at EOF is not inductive, since tokens are
  owed: a line that returns to an outer level owes several OUTDENTs, handed out one by
  one. `Inv` says that the levels opened by tokens returned, together with those owed in `dents`,
  are the levels on `indents`; and that the tokens of kind OUTDENT never outnumber
  the INDENTs. `End` empties the stack and owes the rest before EOF.
* `Loading`. A cached module is replaced only if a file is executed although it is
  cached. `OneAtATime` says of the stack of the only thread that every file on it is not
  cached, that each is awaited by the one below, that what it no longer has to
  load is cached, and hence that a file that has run to its end is on the stack once: a second
  occurrence below would wait, through a chain of files not cached, for itself.

  `CacheIsSound` needs to know what a module has been delivered before it is
  cached: `Books` says of every call on every stack that the module it fills is its own, no
  cache entry and no other call's, and that it has got exactly what the file no longer waits for,
  from the cache.
* `Parser`. The depth is the number of `leave` goals on the stack. `NestingInv` adds that no other
  goal hides one in its argument; then every step of the parser is one of four: it puts
  only ordinary goals in place of one, puts a `leave` under them and counts, takes a `leave`
  and counts back, or gives up. A parse that went too deep leaves the count as it is; the report of it may be
  missing where the list of errors is full, which `Deep` allows for.

  `TokensFitText` needs to know how far the scanner has got past the last token that reads something.
  `Begin` is where the next token can begin: where a word, string or number that has
  begun did begin, else the position. `Tight` says that nothing but white space and
  comments lies between there and that token; every step of the scanner passes over such
  characters, or returns a token that begins at `Begin`. In a string, `InString`
  says that no mark before the position could have ended it, and that the scanner is after a
  backslash exactly where the character is escaped. `Escapes` is a recursive function: that it satisfies its
  own equation, which is all the proof uses of it, follows from one that can be written
  down (a character is escaped if the run of backslashes before it is odd) and from
  where such a run begins, the largest position of a finite set.

  `TokensFitLines` asks of a line its nearest line above that is not further right; the scanner
  only has a stack of columns. `LinesInv` says, as long as the scanner has found no error, what the stack
  answers for *every* column `c` that the next line can have (`Stacked`): the highest
  level that is not further right than `c` is the column of the nearest line above that
  is not further right than `c`, and that line is in the block of this level; and there is no
  such line exactly at the bottom. While a line closes levels, and after it has opened
  or closed them until it has a token, only smaller columns are known (`Known`), and
  `Waiting` says what block the line will be in, so that its first token only
  has to be that token. `Margins` says that `indent`, and later the top of the stack, is
  the number of spaces before the line's first character, although a backslash,
  blank lines and comments may lie between them and the first token. For the newlines, `DepthFits` says that
  `depth` is the number of brackets open in the tokens, and `Places`, for each mode of the
  scanner, whether the line has begun, is escaped or is in a comment. In the end the
  position is `Begin`, because the scanner stops as soon as it has returned a token
  (`Paused`), so that every newline it has read is accounted for.
* `Scoping`. A dict entry may be a variable, a copy of one, or what a comprehension
  has put there, and what a comprehension puts back must be right for the comprehensions around
  it. `Kept(k, d, n, e)` says what the dict of block `d` has for `n` while the first `k` blocks
  of the stack run: the item of the innermost comprehension among them that uses `n`,
  or else what `d` itself has. `EntriesKept` says it of every dict and the whole
  stack, `SavedKept` of what each running comprehension has saved and the stack below it.
  `SeenKept` says that the variables around a running function are as they were when it was
  called: only the innermost block's variables change. `Shaped` is about the tree of
  blocks alone, which grows and never changes.

Only model-checked:

* `Termination`, of `Evaluator` and of `Parser`: liveness and ENABLED are outside TLAPS.
* `DecodesTexts`, `RoundTrip`, `VerdictIsRight`, `OperationsKeepPromises` and
  `BindingIsRight`: they compare a recursion over data with a
  reference, and for every input that takes induction over data, which none of the
  installed provers can do. (Where an answer can be written down without recursion, as for
  `Escapes`, a least or a largest element of a set takes the place of the induction.)
* `CyclesAreAnswered` for tuples, which `equal` does not record: that a cycle goes through a
  recorded container is a fact about paths in the heap, and takes an induction too.
* `LoopsVisitAll`: an invariant of the reachable states, so within reach in principle. It has no
  proof yet: the prover does not expand the library's `SelectSeq`, on which `Live` and `Kept`
  rest, and every operation that folds over its arguments needs a lemma of its own first.

## 7. Where code and documentation disagree

Shown by runs, each reproduced by running the program:

* `Equality_shared`: a pair of values that one thread is comparing counts as equal
  in another thread.
* `Freezing_kwargs`: a `**kwargs` dict kept in a global of a loaded module can be
  changed by importers.
* `Scoping_closures`: free variables are copied into a dict when a function is called, and
  functions made there refer to the copy: what the outer function assigns afterwards
  they never see.
* `Json_indent`: `json.encode_indent({1: 2})` returns `{}`: entries with keys that are no strings
  are dropped without an error, where `json.encode` refuses them (`eval/json_module.py:472`).
* `Nesting_suffixes`: some five hundred calls, or eight hundred indexes, in one another end in a raw
  `RecursionError` of the parser: `_parse_primary` counts, and has counted back when
  `_parse_primary_with_suffix` comes to the brackets (`syntax/parser.py:610`, `646`). `not`, `lambda` and
  conditional `else` (`syntax/parser.py:568-571`) are not counted either.

Met while modelling, with no run of their own (those marked * reproduced too):

* A nested call of the same Program with another environment re-resolves the shared AST
  (`program.py:225`), and the outer evaluation goes on with those bindings: it then reads the
  universal value of a name that its own environment predeclares*. `ReadsOwnEnv` is
  claimed, and proved, for environments in which no name is both (`Disjoint`); with others TLC
  refutes it.
* A chain of a thousand operators or attributes, or of a few thousand `elif`s, ends in a raw
  `RecursionError` of the resolver*, which has no cap and runs outside the clause that
  converts it (`program.py:124`, `175`). With `Constructs = {"chain"}` in `Nesting_suffixes`, TLC refutes `HostContract` there too.
* Of Python's exceptions outside builtins only `RecursionError` is converted: `{}[len]` reaches the host as
  `TypeError`*, `"%f" % x` of a huge integer as `OverflowError`*, a dict that changes its size in a loop over it as
  `RuntimeError`*, and what a host's loader raises as it is*. `program.py:206-208` says that
  `except EvalError` catches everything. In `Evaluator` these are `"python"` and `"host"`, and
  `EscapesContained` says what does not get out.
* `src/docs/spec.md` says of every operation that changes a list, dict or set that it fails
  while iterators are active. None does. A loop over a list follows the changes and may never
  end; a loop over a dict or set whose size changes ends in Python's `RuntimeError`*; a key added for a key removed goes unnoticed and items may be
  passed over*, as they may after `s &= s` in a loop over a set with deletions before*.
  `LoopsVisitAll` says when a loop is right.
* `x.extend(x)` ends in `MemoryError`* (`eval/values.py:192`; the specification: "The
  operation doubles the list"), `x += x` in "excessive capacity requested" after growing
  the list to the cap*: both iterate over the list that they extend.
* `list.insert`, `^=` and `symmetric_difference_update` grow without a charge, and `+=` up to the
  cap before it fails without one; `append`, `extend` and `update` of a dict charge after they have
  grown, so that the container keeps what the limit refused.
* `f(**{"a": 1}, a = 2)` binds the later value without an error* (`eval/evaluator.py:1044`).
  Positional arguments after named ones, and `def f(*)` or `def f(*, **k)`, are
  accepted, and `f((x) = 1)` is a named argument*.
* `json.decode` takes for the four digits of a `\u` escape whatever Python's
  `int(_, 16)` reads: `"\u+041"` is `A`*, and so are `"\u 041"` and `"\u0_41"`*; its docstring says that it
  rejects what is no strict JSON (`eval/json_module.py:25`). The reference reads four digits only: without
  its exception TLC refutes `DecodesTexts`.
* `json.decode("1e999")` is infinity, which `json.encode` refuses*. `json.encode` takes one level
  more than `json.decode` when the innermost container is empty*, and sets, which
  the docstring says it rejects; `encode_indent` has no cap.
* `load` without a name to load is refused by the parser; the grammar at
  `src/docs/spec.md:3125` has it.

* Two threads that parse at once leave the process with the raised recursion limit*
  (`syntax/parser.py:276-281`); in `Nesting`, `LimitKept` claims it for one thread.
* Two threads with one `FileLoader` execute a file twice, and the name stands for two
  modules* (`eval/loader.py:80`); in `Loading`, `LoadedOnce` is claimed for one thread.
* A comprehension's variables are entries of the dict around it. A variable named
  before its `for` clause has run reads the outer one of that name* (an error according
  to `syntax/resolver.py:529-531`), functions called meanwhile read the item in place of
  the variable it hides, and a lambda made in the comprehension does not find its
  variable once it is over. `odd` marks those copies in `Scoping`.
* Names that occur only in default values of a nested function do not count as free in
  the function around it, so that evaluating the default fails* (`bare` in `Scoping`,
  `syntax/resolver.py:612-620`).
* A function loaded from another module reads the globals of the module that calls
  it (`eval/evaluator.py:541`), which `GlobalReads` excepts.
* `assert_fails` (`eval/test_driver.py:102`) catches the limit errors too, so an
  evaluation over `max_steps` may end normally; `LimitStopsProgress` shows that it
  does nothing further on the way.
* `x + [2]` gives the result the token of `x` (`eval/evaluator.py:695`): from a
  loaded, frozen list a module makes lists it cannot append to.

## 8. What is not modelled

File-system path checks of the loader, the command line, and everything about
wording and layout of messages: I/O and formatting. `_CURRENT_MUT` is set and restored by
the same two context managers as `_CURRENT_THREAD`; `Evaluator` models the one,
`Freezing` takes the other to be the running module.

Of the syntax: values of tokens, line numbers, the trees and with them the folding of
adjacent string literals, the second quotation mark, octal and binary numbers. Sources
never have a keyword directly after a backslash. Of the containers: queries that change nothing (`index`,
`count`, `get`, `isdisjoint`, slices), ordering, `repr` and `Range`; NaN as a key; which bytes an entry costs.
Of JSON: the digits of a float, the widths and prefixes of indentation, `\b`, `\f` and `\/`, and
the allocation charges of the values that decoding makes; that Python reads and writes no integer of
more than 4300 digits, so that `json.decode` and `json.encode` refuse it with an error; a tuple, a range and a set are written
as a list is, a struct as a dict, so only those two occur. The conversions in `values.py` and the
string methods are pure functions of one value, without state that a sequence of calls could spoil;
string methods are mostly Python's own. The limits of `eval/limits.py` other than the cap on containers are
single comparisons.

## 9. The plan

Order: first what the embedding host relies on whatever the code (limits,
errors, isolation, locks), then values shared between modules, then names and
containers, then syntax and the pure algorithms.

1. `Evaluator` with `EvaluatorProofs`; `Program` with `ProgramProofs`; `Publication`,
   `Freezing` with `FreezingProofs`; `Loading` with `LoadingProofs`: written, checked, and proved as far as section 6 says.
2. `Scoping` with `ScopingProofs`; `Nesting` and `Equality` with `ProcessProofs`: written,
   checked and proved.
3. `Lexer`, `Parser`, `Grammar`, `Syntax` with `SyntaxProofs`: written, checked, and proved as
   far as section 6 says.
4. `Collections`, `Containers`, `Binding`, `JsonGrammar`, `JsonText`: written and checked.
5. The conversions with their depth cap, against a reference on small inputs, if a use of
   them that keeps state appears.
6. Proofs still to be written: `LoopsVisitAll`, with `Live` and `Kept` defined by the rank of a
   slot in place of `SelectSeq` and one lemma for each fold over a table's entries.
