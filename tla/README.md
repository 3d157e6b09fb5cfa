# A formal model of scratch-lang

scratch-lang is a small message-passing language for Windows: a hand-written
lexer and parser, a compiler that walks the AST and drives LLVM, a linker step
that runs `lld-link` as a child process, and a C runtime with arrays, strings,
hashtables and a counting allocator. This directory holds TLA+ modules of its
logic, TLC configurations that check them on small instances, and TLAPS proofs
of what holds for every instance.

Paths below are relative to the repository's source tree, `src/`; line numbers
are in `PROJECT.json` ("map"), one entry for every definition that models code.

## 1. The system

A build is one pass of data through the parts (`src/README.md`, lines 7-15):

```
 options -> Compiler::build -> stage 1: for every file  Lexer::lex -> Parser::start
                               |                          -> AST -> declarations in scopes
                               |  stage 2: resolve the types of variables
                               |  stage 3: instances and sends -> LLVM IR -> object file
                               v
                            Linker -> Win32Process::createProcess("lld-link ...")
                               |           main thread | reader thread | child
                               v
                          program.exe + scratch runtime (arrays, strings, tables, heap)
```

Everything is called synchronously on one thread, except the linker step, which
has two threads and a child process. Errors are C++ exceptions that end the
build. State that outlives a call is where the difficulties are: a `Lexer`
object, a `Parser` and a `Compiler` process all files of a build one after the
other, and runtime objects live as long as the client keeps them.

| component | state | operations | what is hard | correct means |
|---|---|---|---|---|
| **Lexer** (`src/Lexer.h`) | stack of states, position, pending lexeme, line, tokens, the last token; survives from file to file | `lex`, `processCharacter` and per-state cases, `processToken`, `clear` | 26 states times character classes times "append / advance / reprocess"; recursion; what `clear` forgets; both ends of the text | nothing lost, tokens in order and well formed, stack balanced, terminates, files independent |
| **File context, token cursor** (`src/Lexer.h`) | tokens of the file, cursor | `nextToken`, look-ahead | the end of the list | cursor within the list |
| **Parser** (`src/Parser.h`) | stack of parser states, AST under construction | recursive descent, `ParseStateGuard` | every early return must balance the stack; a guard's destructor throws | stack balanced, progress |
| **AST, visitors** (`src/AST.h`) | tree | `visitAll` | order of open and close events | well nested |
| **Compiler, stages 1 and 2** (`src/compiler.cpp`, `src/compiletime.*`) | modules, environments, a scope stack per module, types, variables, instances, sends | declaration events, sends, `resolveVariable` | scope stack across files, forward references, two handlers for one instance | scopes mirror nesting, names resolve to the nearest declaration |
| **Compiler, stage 3** (`src/compiler.cpp`) | LLVM objects | look-up of arguments, code generation | what stage 1 did not declare | finds what it looks up; the code is LLVM's |
| **Linker and child process** (`src/compiler.cpp`, `src/win32utils.cpp`) | pipe, handles, two threads, child | `createProcess`, `readPipe`, `testProcess` | interleaving, blocking, stale handle | all output delivered, returns |
| **Runtime arrays** (`src/scratch_runtime.cpp`) | size, capacity, block | new, at, insert, append, append_from, reserve, resize, copy, clear, delete | growth policy, which block is freed when | in bounds, no leak, behaves as a vector |
| **Runtime hashtables, dictionaries** (same) | buckets of chains, size, factors | insert, erase, at, set_capacity, clear, delete | rehashing, freeing of chains, collisions | behaves as a map of values in insertion order |
| **Runtime strings, memory, start and end** (same) | cached hash, shared array; total of allocated bytes | set, assign, copy, compare; alloc, free; init, terminate | ownership, stale hash, accounting | freed once, total is exact |
| **Compile-time string** (`src/datatypes.cpp`) | pointer to characters | copy, assign | shared ownership | freed once |
| **Options, tool, formatting, tests** | - | sequential glue | - | - |

How they interact: the parser pulls tokens from the lexer's file context by
calls; the compiler visits the AST and receives open and close callbacks; the
linker gets the child's output through a callback on the *reader* thread;
generated programs call the runtime. There are no locks anywhere.

`PROJECT.json` lists under "hazards" what is hard to test at its line; the
properties below were chosen for those.

## 2. Plan

Order of work: the parts in which a step depends on many earlier ones come
first.

1. `Lexer`, with `MCLexer` and `LexerProofs` - done.
2. `RuntimeArray`, implementing the abstract `Vector`, with `RuntimeArrayProofs` - done
   for arrays whose elements own nothing.
3. `RuntimeHashtable`, implementing the abstract `Multimap`, with
   `RuntimeHashtableProofs` - done for keys that own nothing, every property proved.
4. `ProcessPipe`, with `ProcessPipeProofs` - done.
5. `TokenCursor` and `Parser`, with `MCParser` and `ParserProofs` - done: every
   function of the parser that is called, with every invariant of `Parser` proved.
6. `RuntimeHeap` and `RuntimeString`, implementing the abstract `StringStore`, with
   `RuntimeStringProofs` - done.
7. `CompilerScopes`, with `MCCompilerScopes`, `CompilerScopesProofs` and
   `CompilerWalkProofs` - done for stages 1 and 2 and for the look-ups of stage 3, with
   every invariant proved; array literals are left.
8. Left to model: a hashtable whose keys are strings that it owns, arrays of
   arrays, and the options of the command line (`src/cmd_line_options.h`), where an
   option is matched without regard to case and dashes and then looked up with it.
9. Left to prove: what stays with TLC, and why, is in section 7.

Modules to be proved about declare no `RECURSIVE` operator.

## 3. The modules

### Lexer

One action per case of `processCharacter`; one step is one (possibly recursive)
call of it, so what the code does by calling itself for the same character is a
step that leaves `chIndex` alone. `stack` is `stateStack` with the current state
last, `lexeme` the pair `currentLexemeStart/End`, `tokens` the list of the file
context. `Take`, `Skip`, `Reprocess`, `TakeAndEmit`, `EmitAndDrop` and `EmitAndReprocess` are the
combinations of the three flags (append, advance, reprocess) the cases use;
`AddToken` is `processToken` with the pops it makes for each state.

`Lex` is the whole head of `lex()`: `clear()`, the registration of the file and
the reading of its text. `clear()` does not touch `currentToken`, so `lastType`
survives into the next file, as in the code.

Characters are one representative for each class the code tells apart. Columns
and error texts are left out; keywords are a constant.

### TokenCursor and Parser

A file is the sequence of the kinds of its tokens, and `TokenCursor` the cursor over
it, which stands on a token or behind the last one. In `Parser`, `todo` is the call
stack: what is still to be done, next first. A function is an action that replaces
its call by what it does, up to the point where it looks at the tokens again to
decide; that point is an entry and an action of its own, so that an action has the
guard of one decision in the code. `stack` is `stateStack`. A function that declares a
`ParseStateGuard` pushes its state and leaves an entry `leave` behind, with the state
and the depth the guard notes; `LeaveGuard` is the destructor. `error()` pushes
`ERROR` and unwinds: entries up to the next `leave` are given up, that destructor
runs, and so on, as C++ does. The overload that is given a node pops a state first, which
on an empty `deque` is undefined behaviour: the phase `"crashed"`. Reading the token
behind the last one is the phase `"fault"`; a destructor that throws ends the program,
`"terminated"`.

Nodes are not built. `node` is the kind of the token of the node returned last, which
is what the parser asks of it. Functions nothing calls (`variable`, `assignment`,
`instanceExpr`, the second `messageParamDecl`) and branches no token reaches are left out.

### RuntimeHeap, RuntimeString and StringStore

`RuntimeHeap` is `Runtime_alloc` and `Runtime_free`: blocks with the size their
`Runtime_memory_info` records, and the total; `Started` is `Runtime_init`.
`RuntimeString` builds strings of three blocks (string, header of an array,
characters) from it, in the order the code allocates and frees them. `StringStore` is the
promise: each variable has a text of its own. `retouched` and `headers` are history:
the strings set since their hash was computed, and the number of assignments.

Clients keep these rules: a string is used between its creation and its deletion only,
is not assigned to itself, is not hashed between a clear and an assignment, and is set at
an index it has. (Assigning a string to itself clears the source before it is read;
after a clear the array has a capacity but no block, and hashing reads through null.)

### RuntimeArray and Vector

`RuntimeArray` keeps the fields `size` and `capacity`, and `mem`, the heap as an
array sees it: the block `data` points to, the number of blocks allocated, and
whether memory was accessed outside a block. An element is its first byte and
its other bytes, because the loop of `Runtime_array_insert` shifts bytes and
gets exactly the first byte wrong. `Vector` is the promise: a sequence, and the
effect of each call on it. `IsVector` is the refinement, the contents being the
first `size` elements of the block. All arrays have elements of one type (two types would
only add that `append_from` refuses and that `copy` takes the type of its source).

Many operations are only right in some circumstances. Instead of hiding that,
each has a *contract* on its caller, and the constant `Careless` names the
operations whose contract clients ignore. The contracts, and what happens
without them:

| operation | contract | otherwise |
|---|---|---|
| insert | only at the end (`"shift"`) | the first byte of the element at the insertion point stays behind, one byte after the last is overwritten |
| insert, append | a block exists, and capacity is at least 2 when full (`"grow"`) | 1.5 times 0 or 1, truncated, is no growth: a write beyond the block or through null |
| append_from | the result is shorter than the capacity, or equal to it | one more element than fits is written beyond the block |
| reserve | not below the size; the old block can be replaced | the capacity says less than the size; an array of size 0 loses its block |
| resize | at least the capacity, and not between 1.5 and 2 times it | nothing happens; the new block is computed from the old capacity and is shorter than the new size |
| copy | the source is as long as the capacity, or shorter and the destination never held anything | `clear` frees the block but keeps the capacity: a write through null; a longer source overruns |
| delete | the array is not empty while it has a block | the block leaks |

### RuntimeHashtable and Multimap

A bucket is the sequence of its pairs. Factors are in quarters, so that the
truncated products of `double` are exact. `erase` frees a whole chain while the
bucket keeps its second pair: such a bucket is `dangling`, and any operation
that touches it sets `fault`. `RUNTIME_ASSERT` (debug builds only) is taken as
the client's obligation. `Multimap` is the promise: the values of each key,
oldest first, since `insert` never replaces.

`rebuild_hashes` is stated by what its two loops do with the *places* of the table
(a bucket and a position in its chain): they visit them in the order `NotAfter`, and the
new chain of a bucket is what they find at the places whose key goes there (`Moved`), in
the turn in which they come to them (`Nth`, `Visited`). The entries of a key, which
`Multimap` speaks of, are read off the places in the same order.

Contracts: `erase` only a pair that is alone in its bucket (otherwise the head
of the bucket goes, whatever its key, and the rest is freed); `at` only when the
bucket has one pair, of that key, or several of which the first is of another
key (a single pair is returned for any key; in a longer chain the first is never
compared). A client cannot see which bucket it is in, so these are not contracts
a program can really keep: they delimit when the table is right.

### ProcessPipe

Main thread, reader thread and child as three processes. `main` and `reader` are
program counters over the calls that matter to another process; byte *i* of the
child's output is the number *i*, and `nuls` remembers which bytes are NUL. Each
Win32 call is one step.

`readPipe` puts a NUL behind what it has read and makes a `std::string` of the buffer
without its length, so `Callback` hands over the C string the buffer begins with
(`CString`): a NUL in the output takes the rest of that read with it.

The parent keeps its own write handle until the reader closes it, so the pipe
never breaks and `ReadFile` on an empty pipe blocks even when the child is gone.
`createProcess` closes `childProcess_` and keeps the variable; `testProcess` on
the closed handle leaves `exitCode` uninitialised, so `Active` is a
nondeterministic choice then.

The checked calls of `createProcess` may fail: each has an action of its own
(`RedirectThrows`, `StartReaderThrows`, `RestoreThrows`) that leaves `main` *unwinding*.
The exception is caught in the tool's `main`; on its way it leaves the block in
`compiler.cpp` that owns the process (1513-1522), and the destructor waits for the
reader thread if there is one (`Unwind`). Without `ComSpec`, `createProcess` returns
false before it starts anything (`Refuse`). In all these cases but the first two calls
of `Redirect` the standard output of the parent stays the pipe: only the straight way
restores it.

Left out: a child with exit code 259 (which `testProcess` takes for running), processes
the child starts itself (they would hold the write end too), a `ComSpec` that is not set
at all (a string from a null pointer), and what ends the whole program at once:
`DebugBreak` when `CreateProcess` fails, and an exception in the reader thread, which
nothing catches (a write of zero bytes, or `ReadFile` or `CloseHandle` failing).

### CompilerScopes

One action per node that declares or sends something, entered or left by the visitor of
stage 1, and one for each of: the head of `stage1`, its end, `stage2`, `stage3`. A scope
is its index in `scopes`; `path` is its chain of parents, so the recursive look-ups
(`hasType`, `getType`, `getVariable`) are questions about the members of `path`.
`modules` holds `currentScope` and `currentNamespace` of every module, which the
code moves separately. `open` is the place of the walk in the AST, which is not
built: it admits just the nodes the parser puts there (a namespace block holds one
namespace or statements, a class its variables and then its messages). `todo` holds the
receivers and arguments of a message being sent, which the visitor comes to after
the send. A type a variable has got is the scope that declares it, so that two types of
one name are told apart.

Records push no scope: their members are declared next to the record, as in the
code. A send declares the instance of its receiver with the type of a variable of its
own scope; the instance node, visited later, looks along the chain, keeps the instance
that is there and may declare a variable without a type name. The key of a send
leaves out its arguments, and the first send of a key is kept. A literal without an
instance gets a name made of the address of its node (`Temps`; trees are never freed, so
names do not come back: `Unused` gives those behind the last one used). The nodes that
declare nothing are visited all the same (`VisitOther`). An integer literal may be too large for `std::stoi`, which throws.

`Throw` is an exception that ends the build; a call through a null module is the phase
`"crashed"`. Stage 3 goes through the sends in the order of their keys, so any of its
failures may come first. Two of them are undefined behaviour, the phase `"undefined"`: the
use of an instance that is not there, and the qualified name of a variable, which follows a
pointer that was never set. That pointer may happen to be null, so a build with variables
may also reach `"built"`; no property relies on it.
Left out: array literals, arguments that follow a closure, literals of strings (undefined
behaviour at once, section 8), and everything stage 3 asks of LLVM.

## 4. The runs

| run | question | bounds |
|---|---|---|
| `lexer_one_file` | Are the tokens of a file right, and does `lex` return? | every text of up to 5 characters of numbers and words and of comments and strings, of up to 4 of colons and punctuation, and of up to 2 over all classes; the file may be given again or be unreadable |
| `parser` | Do state stack, cursor and braces agree on every way out of every function, and does a parse end? | 27,062 files: the 12 samples of `src/tests` and the empty file, each of them (and a class of methods of every form) with one token missing, inserted or swapped or with its end missing, every body of up to 4 tokens over five alphabets, and the head of a method with up to 4 tokens more |
| `parser_definitions` | Are the definitions accepted that the comment in `statement` lists? **Violated** | its four forms |
| `array_contract` | Is an array a vector, and its memory sound, for careful clients? | sizes up to 4, two byte values |
| `array_insert` | And for inserts anywhere? **Violated** | sizes up to 3, elements of several bytes |
| `hashtable_contract` | Is the table a multimap, correctly filed, counted and grown, for careful clients? | three keys, two of which collide at some capacities only, 4 pairs, capacities up to 4, the default factors and a half |
| `hashtable_erase` | Is every pair used before it is freed? **Violated** | 3 pairs |
| `pipe` | What can happen between the two threads and the child? | 5 bytes, a pipe of 3, a buffer of 2 |
| `pipe_last_read` | Is the pipe empty when the reader stops? **Violated** | 2 bytes, a pipe of 2, a buffer of 1 |
| `strings` | Are strings texts of their own, and is all memory accounted for? | two strings, texts of at most one character, 10 blocks |
| `scopes` | Do scopes and namespaces follow the nesting of the source, what does a passed stage 2 mean, and what does stage 3 find? | two modules, 5 scopes; one file with 4 declarations, or two files with 3, of two types and a variable, where a send counts as two; messages with at most one argument |
| `scopes_fragment` | Is everything a build declares declared in a module? **Violated** | the same |

Why the bounds are enough. No state of the lexer looks further than one
character ahead or behind, and the longest path of states is four (`NONE`,
`DIGIT`, `DECIMAL_DIGIT`, `VERSION_DIGIT`), so five characters contain every
transition, each with every neighbour of its alphabet, and the start of the next
token; the theorems of section 6 cover all lengths. Size 4 of an array crosses
both rules for the first capacity (below four, doubled; from four on, times 1.5)
and several growths. With hashes 0, 1 and 2 modulo capacities 1 to 6 the keys
collide, part and collide again. The pipe is smaller than the output and no
multiple of the buffer, so a writer blocks and a read splits the pipe. The parser looks
at most one token ahead or behind; a damaged sample brings each of its
errors about at every depth the samples reach, and the short bodies follow every choice of
the functions with the wrong token. (The proof about its guards covers all files.) Two
strings with ten blocks leave room for either to be assigned until the memory is full.
Five scopes are those of the compiler and of one or two modules with three or two
nested blocks below, enough for a type to be shadowed, or declared after its use, in
either file; the declarations are enough for a variable and two types for it, one of
them in an inner scope, for a send in one that refers to a variable outside, and for
two sends of one key.

What each passing run shows:

- `TokensWellFormed`: the text of each token is one its type allows. For hexadecimal
  and binary literals the code asks only that the character before the `x` or
  `b` be a `0`: `20x1` is one literal, and the property says no more than that.
- `NothingLost`, `TokensInOrder`: every character consumed is in exactly one token or
  pending, or is a dropped delimiter. `Inv` is the invariant of the proofs.
- `TokenEndsAtBottom`: the extra pops of `processToken` undo exactly what the token pushed.
- `LineNeverAhead`: the line counter counts a newline at most once. (It does not
  count all of them: the newline that ends a word, a number or a comment is not
  processed as whitespace. The property is the half that holds.)
- `LineCommentEndsAtEol`: a line comment ends at its newline in the first file of a
  build. (Not in a later one: see section 5.)
- `LexReturns`: no character is reprocessed for ever.
- `GuardsNeverThrow`: whichever token is wrong, each destructor on the way up finds the
  state it pushed, or `ERROR` on top.
- `BlocksEndAtTheirBrace`, `AcceptedIsBalanced`: functions disagree on whether they
  return on their last token, behind it, or before it; still every class, record and
  block of a message ends at the brace that closes its own first one, and an accepted
  file has balanced braces. Both are about `Plain` files, without the four shapes in
  which the parser miscounts: nested namespaces share closing braces, `@` takes a brace
  for flags, whatever follows a dot is taken for a name, and a method in a class whose
  head has parentheses, or neither a colon nor a return type, needs two opening braces.
  (So a plain file has no block that begins right behind another brace, but for one that
  closes everything.)
- `UndefinedMeansUnbalanced`: reading past the last token and popping the empty stack
  need a file that does not end with a brace, whose braces do not balance, that has a
  comment or flags just before a closing brace, or a block comment without its text or
  its end.
- `KeepsAccepting`: the samples that parse go on parsing.
- `ParseEnds`: a parse ends, except in two loops, which the property names: the members of
  a class (`ClassSpins`) and a named argument behind a keyword (`RepeatsArgument`).
- `Sound`: in bounds, nothing leaked, the size within the capacity within the block.
- `IsVector`, `IsMultimap`: the refinements.
- `InHomeBucket`, `SizeIsCount`, `LoadBounded`: filing, counting and the growth rule.
- `Conserved`: what the reader holds and may still read is the end of the output so far
  (`InTransit`); what the callback received comes from before that, in order and none of
  it twice (`InOrder`); and what it did not receive, a NUL less than a buffer earlier has
  cut off, with everything in between (`LostToNul`). So no read overlaps another, skips
  a byte or loses one for any other reason.
- `ReaderOutlivesChild`, `WriterUnblocked`: the reader never leaves a running child,
  and a child that waits for room gets it, unless its reader could not be started.
- `ReturnsOrHangs`: once the child is gone `createProcess` returns with the standard
  output restored, or throws, or hangs in exactly one way, there or in the destructor
  that an exception runs: the reader saw the child active
  after the last output and went back to `ReadFile`. A silent child meets this
  always; the linker passes `/verbose` (the `debugMode` test around it is
  commented out), which hides it most of the time.
- `ScopeMatchesBlocks`, `NamespaceMatchesScope`, `BlockWalksItsModule`: what the
  open and close handlers push and pop balances, and a module block brings its
  file back into the module wherever an earlier file has left it.
- `IsStringStore`: the refinement: an operation changes the string it is given, and no other.
- `HashIsOfText`: a computed hash is that of the text, so that equal strings hash alike
  whatever their capacity, but for strings set after they were hashed.
- `Accounted`: no block is freed twice or shared; what is lost is the header of the array
  a string had before each assignment, and the total is exact.
- `InstancesAreVariables`: the handler of a send and that of its receiver leave one
  instance, which stands for a variable in sight. Its type is that variable's or unknown.
- `LiteralsFound`: the instance of a literal is in the scope of the send that stage 3
  will look it up in.
- `SuccessMeansTyped`, `ErrorsAreReal`: a build that passes stage 2 has typed every
  variable declared in a module by a type in scope, and the errors of stage 2 are
  errors.
- `TypesStable`: a type found in stage 1 is not replaced in stage 2 when a nearer
  type of that name was declared in between. (So the type of a variable depends on
  where in its block it stands; the property does not say that this is desirable.)

Deadlock is not checked: lexing, a parse, a build, the parent and a faulted client really
stop, and a client of the strings runs out of memory.

Fairness. The loop of `lex` and its recursion run on one thread, hence
`WF_vars(ProcessCharacter \/ EndOfText)`; nothing is assumed of the caller. The parser too runs on one thread and waits for nothing:
`WF_vars(Next)`. Each
thread of the parent is runnable unless blocked in a system call, hence weak
fairness of the reader's and the main thread's steps. Nothing is assumed of the
child: it may run silently for ever, and the properties that need its end say so.

## 5. Disagreements found

- The comment in `statement` (`src/Parser.h`, 2626-2629) lists four forms of a variable
  definition, with a plain or a qualified name and type; the three with a qualified part
  are rejected (`parser_definitions`). `statement` looks for the colon behind the first
  identifier only (2636), and `variableDef` takes one identifier for the type.
- `Runtime_array_insert` before the end is off by one byte at both ends (`array_insert`).
- `Runtime_hashtable_erase` frees the pairs it keeps (`hashtable_erase`).
- The "last read" of `readPipe` is never made, so the end of the linker's output
  may be lost (`pipe_last_read`).
- A second file without a module block is walked in the scope of the compiler: its
  types become global, the variables of its classes are not verified, and its first
  variable at the top level crashes the compiler (`scopes_fragment`).

Each of these has a run that shows it. Others are written into the models as the code has them,
without a run, since no text of the repository contradicts the code or the property
that would show it is narrowed to what holds:

- After a file that ends right behind `#{`, the first line comment of the next file does
  not end at its newline: line 1199 of `src/Lexer.h` looks at the last token, which
  `clear` does not reset.
- The last lexeme of a file without a character after it yields no token and no error.
- Three of the samples of `src/tests` are rejected (`Rejected`): `test6.scratch:7`, since no
  closure with a return type is accepted (`msgInstance`, 2101-2106, asks for the brace while
  the cursor is on the `]`); `test3.scratch:7`, a definition with a value; and the nested
  namespaces of `test2.scratch`. The script `run-tests.ps1` runs none of the three.
- Output of the child after a NUL byte is dropped up to the end of the read; a failing call
  or an empty `ComSpec` leaves the standard output of the compiler redirected.
- Stage 3 asks every variable for its qualified name, which follows the `parent` of the
  global namespace of the module (`src/compiletime.h`, 449): nobody initialises it.
- A token a class does not expect, and a named argument behind `nil` or a keyword,
  keep the parser in its loop for ever (`src/Parser.h`, 1295 and 1934).
- `{ # }` makes the parser read behind its tokens; so does any file that ends early. A file
  that begins with `#{ #{` pops the empty stack. `msg foo {`, a
  message without parameters, is rejected.
- In a class, the head of a method that has parentheses, or neither a colon nor a return
  type, ends on the brace of its block; `src/Parser.h` 1364 moves on all the same, and the
  block needs a second brace (and later closes with the first that comes). Whatever token
  follows a dot becomes part of the name (2057-2067), a brace too. `{ @ [ x ] }` reads
  behind its tokens, as `{ # }` does.
- `Runtime_string_set` leaves the hash as it was; assigning a string loses a header.
- The second of two sends of one message to one instance in a scope is dropped if both
  have arguments or neither has: in `x := 1; x := 2;` the second is never compiled.
- Stage 3 uses the instance of an argument without asking for it. Only literals of integers
  declare theirs under the name it asks for: any other argument, a variable among them, is
  the end of a map.
- The instance of a receiver has no type if its variable is declared in an outer scope.
- A literal of a string deletes its storage several times (`src/datatypes.cpp:80`).

## 6. Proved

The provers check, for every value of the constants:

**`LexerProofs`** (assumption `LexerAssumption`: texts are sequences of the
character classes, keywords are words). `TypeCorrect`; `Invariant`: `Inv` always
holds; from it `NoCharacterLost`, `TokensOrdered`, `LexemeContiguous`;
`StackBalanced`, the action property `TokenEndsAtBottom`; and `LinesNeverAhead`
(`LineNeverAhead` is inductive with the types: `ScanCounts` shows that a call of
`processCharacter` skips a whitespace, fails, or leaves the counter alone and adds at
most a token of the current line). `TextsFit`: the text of every token is one its type allows
(`TokensWellFormed`); `FirstFileComments`: line comments end with their line
(`LineCommentEndsAtEol`) as long as the lexer has been given one file only.

The properties are not inductive alone. That an emitted token leaves the stack at the
bottom depends on what lies below the current state, so `StackIsLegal` says that the
whole stack is a function (`LegalStack`) of its top. That no character is lost and
tokens stay in order depends on where the next token may start (`Frontier`):
`TokensBehind` says all tokens end before it. `COLON` and `ASSIGNMENT` are the only
states entered without consuming the character, or having appended one ahead of its
turn; `ScanInvariant` says what they stand on. The proof reduces every case of
`processCharacter` to one of a few *outcomes* of a step (take, emit, drop, retry,
fail), and proves once for each outcome that the invariant survives.

`TokensWellFormed` speaks of whole lexemes, but the automaton sees one character at a
time. `TextInv` therefore says what each state has taken so far (`Fits`: a state that
emits a token has taken a text of its type already, `A_Z`, `DIGIT` and `COLON` perhaps
nothing yet) and, since some states are entered before their first character is looked at,
what is known of that character (`Opened`): that the letter or digit is one, that a
punctuation state stands on its own character, and that a comment whose last character is a `}`
does not stand on a `#`. The lemmas of the kind `DecimalGrows` say what one more character
makes of a text, and one lemma per state uses them. For the prefix of `0x` this shows exactly
what the code ensures: a zero before the mark, digits before the zero.

The end of a line comment depends on the type of the last token the *lexer* emitted, so
`CommentInv` says that it is the type of the last token of the *file* (`LastTokenType`), which
is true of the first file and false of a later one, where `lastType` is what the file before left.

`CallsRunOut` is the part of `LexReturns` that is about what the automaton does: each call of
`processCharacter` throws or lowers `CallsLeft`, a number of at most four times the length of
the text and three. Many states hand their character on to another state, by a recursive call
or by leaving it for the loop; that they do not hand it back rests on `Inv` and
`TextInv`: a word, number or colon that ends before its last character has taken one of its
own (`EndedHasText`), so a state that was entered for a character takes it.

**`ProcessPipeProofs`** (assumption `PipeAssumption`: both sizes are positive):
`TypeCorrect`, `Invariant`, `OutputConserved` and `ReaderWaits`. The last is the
interesting one: although `testProcess` may answer wrongly, it does so only when the
handle was closed, which the main thread does only after the child's end. `Inv`
links the main thread's progress with the existence of the child and the reader
(`StartsInOrder`) and with the handle (`HandleValid`). `OutputConserved` (`Conserved`) is
inductive with the types and with the buffer being empty but between `Read` and `Callback`.
`CLengthExists` shows that every buffer has a length as a C string, so that `Callback` is
defined; the proof of its step then tells what was delivered before from what is new, and
blames the first NUL of the buffer for what is missing behind it.

Two theorems are what the liveness properties rest on besides fairness. `ThreadsGetNearer`: every
step of a thread of the parent lowers a number (`Distance`), so the threads stop after finitely
many steps of their own unless the child writes, which it does finitely often.
`StuckStates`: where neither can take a step, `createProcess` has returned with the standard
output restored and the reader done, has refused, or has thrown with no reader at work; or the
child runs and the pipe is empty (so it is not waiting for room), or the
reader waits for output nobody will write (`Hung`). When a thread can take a step is written out
(`ReaderCanStep`, `MainCanStep`), since `ENABLED` is out of the prover's reach.

**`ParserProofs`** (assumption `ParserAssumption`: files are sequences of token kinds):
`TypeCorrect`, `Invariant` and `GuardsHold`, and about braces `ParserWalks`,
`AcceptedBalances` (`AcceptedIsBalanced`), `BlocksEnd` (`BlocksEndAtTheirBrace`) and
`UndefinedIsUnbalanced` (`UndefinedMeansUnbalanced`), for every set of files. That a guard finds
its own state on top depends on all the guards below it: while the parser has met no
error, the first guard of `todo` has the state on top of `stack`, and each of the others
the one below that of the guard before it (`Matches`). From an error on,
`ERROR` is on top (`ErrorOnTop`), which is the state of no guard: every destructor on the
way up returns before it pops or throws. Nearly every action is one
of five steps, and one lemma for each of those carries the invariant.

The properties of braces are about where the parser stands when a function begins or
returns, which the code documents nowhere: some functions return on their last token,
some behind it, some before it, and some do either. `BInv` says, for a plain file
(`Regular`), that the parser *walks*: what is left in `todo` is a way (`Run`) from where
the parser stands (`State`: the cursor, the saved position, the node returned last) to
somewhere, each entry of which fits (`Fits`) between what the one before leaves and what
the one behind needs. `Fits` is the contract of every function, written as two
sets of states. They are described by *levels*: a level is a set of prefixes of the file
between which no block opens or ends but whole ones (`Level`), `On(f, c)` and `To(f, c)`
are the states in which the current token, or the one before it, is the last of a prefix
in the level `c`, and the other sets add what a function looks at: `ToFirst` before the first
statement of a block, `OnNode` a node that is no null, `AtEnd` before a closing brace. A
function that opens a block runs its entries on the level within (`Nested`), and the entry
`leave` of its guard claims `EndsBlock`, which is `BlocksEndAtTheirBrace`. Every
prefix of a level within a block leaves one open (`Deep`), so a file whose braces balance
and that ends with one is not read past its end there (`Safe`), which gives
`UndefinedMeansUnbalanced`; and the
entries of the file itself stay on the outermost level (`Outside`), so that an end without
error is an end of all the blocks, `AcceptedIsBalanced`.

The steps are the same five as before, and each has its lemma again (`ThenFits`,
`EnterFits` and so on): what a function puts in front of `todo` must be a way from what it needs to
what it ensures. That is shown once for every sequence of calls in the
parser (the lemmas named ...`Runs`) and once for every function (...`Keeps`). Where a contract
would be false the proof stops: this is how the four shapes that `Plain` excludes, and
`OddComment`, were found to be all there are.

**`RuntimeArrayProofs`** (assumption `ArrayAssumption`; both theorems also assume
`Careless = {}`, a client that keeps every contract): `Soundness`, that memory is sound
between calls, and `ArrayIsVector`, the refinement `Spec => V!Spec`, for any `MaxSize`
and any bytes. The invariant is `Sound` with the bound `MaxSize` on the size. The
argument is the same for each operation: from the contract, the helper that makes the
new block (`Reserved`, `FreeData`, `Written`) is called where a lemma says what it
yields, and `LeavesVector` turns "the block begins with the elements of `s`" into
"the array is sound and its contents are `s`". The run `array_insert` shows a client
that breaks one of the contracts.

**`CompilerScopesProofs`** (assumption `ScopesAssumption`: the names are apart): `Invariant`,
`VariablesTyped` (`SuccessMeansTyped`), `ReportsReal` (`ErrorsAreReal`) and
`NothingTakenBack` (`TypesStable`), for any number of files, scopes and nested blocks.
`SuccessMeansTyped` speaks of the end of stage 2, but most types are given in stage 1:
what stage 1 finds must still be in sight then. So `WellFormed` says that a type is in sight
(`InSight`) of the variables that have it, and that the chain of a scope on a chain is
part of that chain, so that a scope below sees what its parent saw; and `Extends` says
that a step leaves the chains alone and takes neither a type nor a typed variable
back, so that nothing goes out of sight. Two lemmas, `Replace` and `Add`, carry this over
the two ways in which stage 1 changes the scopes, and each handler is one of them. That
`getType` finds the nearest scope (`TypeOfInSight`) needs that a bounded set of scopes has a
greatest member, which is where well-founded induction comes in.

**`CompilerWalkProofs`** (the same assumption), about the walk itself: `ScopesAreBlocks`
(`ScopeMatchesBlocks`), `NamespacesAreScopes` (`NamespaceMatchesScope`),
`BlocksWalkTheirModule` (`BlockWalksItsModule`), `TypeCorrect`, `InstancesStand`
(`InstancesAreVariables`) and `LiteralsStand` (`LiteralsFound`); with these every invariant
of `CompilerScopes` is proved. There are two inductive invariants. `WalkInv` says that the
scopes are a tree (`Tree`: a chain begins at the scope of the compiler, goes up, and is
that of the parent with the scope added); that below the scopes of the open blocks lie one
or two that no block pops (`Fits`, `Base`), the compiler's and the module's, according to
what the file began with; and that the namespaces of *every* module are those along its
chain (`NamesMatch`). The modules the walk is not in are part of it: each stands in its
global scope or, since a file pops one scope too many, in that of the compiler
(`RestFine`), so that the module block of a later file can bring it back. The property about the current
scope alone is not inductive: what a closing block pops depends on all the blocks below
it, so `BlocksFine` says which kinds of blocks may follow each other and where the module
block may stand. `Rank` counts the blocks with a scope up to a place; the lemmas about
it (`RankGrown`, `RankBounds`) take the place of an induction over the stack.
`DataInv` is about what waits: an instance or a literal that is sent has its
instance, or its node is in `todo` and will be visited in that very scope, and nothing
else is opened before `todo` is empty. The two properties are `DataInv` where nothing waits.

**`RuntimeHashtableProofs`** (assumption `HashtableAssumption`): `TypeCorrect`, `FiledAtHome`
(`InHomeBucket`), `SizeCounts` (`SizeIsCount`), `LoadStaysBounded` (`LoadBounded`), and
`TableIsMultimap`, the refinement `Spec => M!Spec`. The first four are for every client,
careless or not; the last assumes `Careless = {}`, and the run `hashtable_erase` shows what
becomes of the table otherwise. Every hash function, capacity and factor is covered.
`OnlyEraseLeavesStale` says that nothing else does: a client that keeps the contract of `erase`,
and breaks any other, never has the table touch a pair that was freed (`NoUseAfterFree`).

The invariant says that the pairs are filed under the capacity (`Filed`) and that
`size` counts them (`Counted`); a client that keeps the contracts never leaves a bucket
dangling (`CarefulInv`). The work is in the rehash. The places are finite and totally ordered, so each
has a turn of its own, and every turn has its place (`TurnOrder`, `TurnOnto`, `NthIs`).
A rehash moves each pair to a place (`PlaceAfter`) that no other pair goes to, that is in
its home, and from which it is read back (`NewPlace`, `NewPlaceTaken`, `NewOrder`): so no
pair is lost or doubled. Two pairs of one home keep their order, and those of one key
have one home; `SameOrder` (a map onto that keeps the order keeps every turn) then gives
that the entries of the key are the same sequence (`RebuiltEntries`). For the other operations:
`AppendedEntries`, `ErasedEntries` and `FoundIsOldest` say what becomes of the entries and
what `at` answers when it is called within its contract.

For `LoadStaysBounded` nothing has to be known of the buckets: with the default factors an
insert compares the size with three quarters of the capacity and grows by a half before it
adds one; that growing once is enough is arithmetic with three truncations
(`GrowthSuffices`), and false for a capacity of 1, which `LoadBounded` excepts.

**`RuntimeStringProofs`** (assumptions `StringAssumption` and `AddressAssumption`, of which the
texts are sequences of numbers and memory is finite, with room for the three blocks that
`Runtime_init` allocates): `StringsAreTexts`, the refinement `Spec => Store!Spec`;
`HashesAreOfTexts` (`HashIsOfText`); and `MemoryIsAccounted` (`Accounted`), for any number
of strings.
The invariant says that what a client holds is the address of three blocks that fit
together (`Whole`: the string, a header with the length of the text, and the padded
characters) and that no two strings share one (`Apart`). The lemmas about memory say
what each helper leaves at its blocks, and that it touches no others (`Same`). `Others`
turns this into the claim about the strings an operation was not given: since their
blocks are neither free nor those of the string it was given, they read the same
afterwards. `OneString` and `NoString` do so for an operation that leaves its string with
a text or deletes it, and each operation is one of these. In particular an assignment may put
the new characters where the old ones were, and the header that it loses stays
out of everybody's way.

For the account, the invariant adds that the total is the sum over the blocks not freed
(`IsMem`) and that what is lost are as many empty headers as there were assignments
(`LostHeaders`). The sum is a recursive function on sets. An induction over sets is not to
be had from the library, whose theorems on it take an operator; but that there is such a
function, that it does not depend on the order in which elements are added (`SumAdds`) and
that disjoint sets add up (`SumSplits`) is shown for a smallest set that would be an
exception, since there is a least number among the sizes of the exceptions (`Least`).
With it `BytesAdd` and `BytesSame` say what allocating and freeing make of the total. Each
operation then either loses nothing (`NoneLost`) or, assigning, one header (`LosesOnly`).

## 7. Only model-checked

- Liveness (`LexReturns`, `ParseEnds`, `WriterUnblocked`, `ReturnsOrHangs`): liveness under
  fairness and `ENABLED` are outside what the prover does. For the lexer and the pipe the
  decreasing measures are proved (`CallsRunOut`, `ThreadsGetNearer`, `StuckStates`), and the
  step from there to the property is fairness; for `ParseEnds` not even that: the parser goes
  back to a saved token, and some of its loops consume a token only steps after they began,
  so that a measure would need a weight for every function.
- `KeepsAccepting` of `MCParser`: that the samples of `src/tests` parse is about these
  files, and the run parses them.
- What recursively defined operators compute: an induction over data needs a theorem with
  an operator parameter, which the installed provers cannot instantiate.

## 8. Not modelled

- Code generation: its meaning is LLVM's. Of stage 3 the look-ups are modelled.
- Compile-time strings (`src/datatypes.cpp`): `assign` deletes the data the string has and
  never keeps the pointer to what it makes, and every copy deletes the same data again. Any
  use is undefined behaviour at once, so nothing can be said of a state after it.
- Dead code: in the parser, the functions named in section 3; the leaf-first traversal
  of the AST; the handler of `Assignment` nodes, which the parser does not build.
- Blocks of records and classes: `Runtime_alloc` allocates their header only but records
  the full size. Nothing in the repository allocates one but arrays of such elements.
- Comparison, `find` and `substr` of strings: the first is that of arrays, the others are
  stubs that change nothing.
- Copying an array to itself: the contents are lost (they come out zeroed) or are copied
  through null, whatever the array, so no contract admits it.
- The options of the command line and the tool driver: sequential glue (see the plan).
- Formatting and console output (layout); `src/Runtime.h` and `src/runtime.cpp` (commented
  out); the copy primitive in assembler (an atomic copy in the models); build files and tests.
