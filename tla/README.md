# Verification of genclidb

genclidb is a command line interface for routers. A C++ program reads modes and
command definitions from JSON, reads lines, and turns each line into requests to
a Rails application. The Rails application, generated from JSON table
definitions, keeps the configuration in a database. This directory holds TLA+
modules for both, the TLC configurations that check them, and TLAPS proofs.

Paths below are relative to the repository.

## 1. The system

| Component | State | Operations | Interacts with |
|---|---|---|---|
| Session (`src/cli.cpp`, `src/cli_action.cpp`, `src/cli_builtins.cpp`, the second half of `src/cli_readline.cpp`) | `mode_`, `params_`, `exit_`, the last result; per line: `input`, the place in the list of actions | `gets`, `execute`, `execute_parent`, `handle_actions`, the handlers of HTTP, mode and built-in actions, `exit`, `end`, `mode_up` | the parser (looks lines up), the server (requests), the terminal (lines, end of input), signals (SIGINT and SIGTSTP run `end` at any point) |
| Command tree (`src/cli_tree.cpp`, loading in `src/cli.cpp`) | one graph of nodes per mode | `load_cli_json_all`, `parse_defun`, `build_command`, `build_recursive` | the definition files, read in directory order; several modes and definitions share nodes |
| Line parser (first half of `src/cli_readline.cpp`, `src/cli_string.cpp`) | what is left of the line, the node reached, the matching nodes | `parse` (for `?` and TAB), `parse_execute` (for Enter) | the tree, the matchers |
| Token matchers (`src/cli_tree.cpp`) | the locals of each `cli_match` | one character | the parser |
| Help and completion (`src/cli_readline.cpp`, `src/cli_http.cpp`) | candidates kept at nodes between two keys | `describe`, `completion_matches`, `update_on_demand` | the parser, the server |
| Binding (`src/cli_utils.cpp`) | the parameters of a line; the locals of `expand` | `bind_interpreter`, `expand`, the functors, `candidates_by_field` | the session, completion |
| Start (`src/main.cpp`, `Cli::init`) | the options, `tree_`, `mode_`, `privileged_mode_` | `getopt_long`, `mode_traverse`, `load_cli_json_all` | the files, signals |
| REST backend (`www/model.erb`, `www/controller.erb`, generated by `www/setup.rb` from `db/*.table.json`) | the tables | PUT, POST and DELETE by keys; cascade; destroy-upon | the session's requests; the database, which keeps what was saved when the server stops |
| Associations (`www/model_assoc.erb`, `www/controller.erb`) | routes, tables of next hops, the table that joins them | find or create both sides and the row; destroy the row and what nothing uses | as above |
| Generator (`www/setup.rb`, `www/routes.erb`) | files | runs Rails generators, edits their output | - |
| Definitions (`cli.json/`, `db/`) | data | - | - |

What is hard here: signal handlers that change the mode between any two steps
of a command; the fallback of a line to the modes above while the parameters of
the current mode stay in place; definitions that share nodes of a graph built in
directory order; two parsers of the same line; multi-statement requests without
a transaction; numbers the server chooses; rows that several routes share; candidates
that stay at a node when the next request fails; an interpreter whose locals live on
between statements; signals while the program starts. `PROJECT.json` lists each such place
with its line under `hazards`, with the properties that cover it.

What makes each component correct:

- *Session*: the mode is always a mode of the mode file; a request names what
  the user typed on this line or on the line that entered the mode, nothing
  stale; a line has one of the effects of the line-at-a-time description,
  wherever signals arrive; every line ends and a closed terminal ends the session.
- *Tree*: a definition is reached by the lines its defun allows and by no others,
  in whatever order files are read; siblings are distinct; hiding is per definition.
- *Parser*: help and execution agree, and so do their error markers.
- *Matchers*: a word is taken exactly if it is what the token's name says.
- *Completion*: what is shown is what the server answers now, stands where the cursor
  is, and nothing that could stand there is missing.
- *Binding*: the parameters are what the bindings say one after the other; two
  ways to write a network or an area name one row.
- *Start*: the session starts with the wanted commands, in the right mode.
- *Backend*: rows form a tree whose keys and ids agree; no request meets the
  unique index; new entries come last; no empty container stays; request by
  request it is a tree of named nodes. Routes and next hops are request by request a set
  of pairs, and no row is left that no pair needs.

## 2. Modules

| Module | Models | Abstracts from |
|---|---|---|
| `CliSession` | the session, one action per step of the code | strings; what a binding computes (the keys it defines are kept); message texts |
| `CliSessionAtomic` | what a line, a signal and the end of input do, each at once | the steps in between |
| `CliSessionInv` | the inductive invariants, shared by TLC and the proofs | - |
| `CliSessionProofs` | theorems about `CliSession` | - |
| `CliTreeBuild` | loading definitions into the tree of one mode; the meaning of a defun for comparison | the text of tokens, bindings and actions of a definition (it is one value) |
| `CliParse` | `parse` and then `parse_execute` on one line | the tree and the matchers are constants |
| `CliComplete` | extends `CliParse`: what Enter, TAB and `?` do with the line, with a server that answers or fails | the order of candidates; the text of the help |
| `CliParseProofs` | theorems about `CliParse` and `CliComplete`: the marker, the agreement of `parse` and `parse_execute`; that help is fresh, and what TAB offers | - |
| `CliBind` | the bindings of a command, token by token, and the way of a stored network back through completion | the digits of numbers, except leading zeros; four octets of eight bits are `Octets` of `Bits` |
| `CliBindProofs` | theorems about `CliBind` | - |
| `CliStart` | `main` and `Cli::init` up to the first prompt | what a definition adds to a tree (`CliTreeBuild`); how JSON is broken |
| `CliStartProofs` | theorems about `CliStart` | - |
| `CliMatch` | the character loops of the matchers | - (limits are constants) |
| `CliMatchProofs` | theorems about `CliMatch` | - |
| `RestModel` | the generated models and controllers, statement by statement | attribute values (a small set), IP address encoding |
| `RestModelProofs` | theorems about `RestModel` | - |
| `RestStore` | what the backend promises: requests on a tree, each at once | rows, ids, statements |
| `RestStoreProofs` | the theorem that `RestModel` implements `RestStore` | - |
| `RestAssoc` | routes, next hops and the rows that join them, statement by statement | the values of keys |
| `RouteStore` | what the backend promises of routes: a set of pairs | rows, ids, statements |
| `RestAssocProofs` | theorems about `RestAssoc` | - |
| `MC*` | small instances | |

### State and actions against the code

`CliSession`. `mode` is `mode_`, `params` is `params_`, `exit` is `exit_`;
`pc` names the point in the code, `input` the local of `handle_actions`.
`ReadLine` is `gets`; `Parse` and `ParseParent` are the lookups of `execute`
and `execute_parent`; `Populate` the part of `handle_actions` before the loop;
`NextLookup`, `Skip` and `Handled` the loop with its two lookups per action;
`SendRequest` and `Answer` an HTTP action; `EnterMode`, `DeriveParams` and
`UpMode` the parts of a mode action that a signal can come between; `BuiltIn`
the built-in; `Restore` the `mode_set` after `handle_actions` in
`execute_parent`; `Interrupt` the handler of SIGINT and SIGTSTP, enabled
everywhere. `mode_up` and `exit` read `mode_` before they write it: a signal in between is
lost (`MoveUp`), and `exit` may go up from the privileged mode although it was called in
another (`ExitTorn`); `MoveUp`, `UpMode` and `CliExit` are one step each, with these outcomes.
`CliSessionAtomic` reads a line and then does it; `reading` maps to the
line in execution, so that a line which ends without its effect is no stutter.

`CliTreeBuild`. `stack` holds the activations of `build_recursive`: `curr`, the
group's `hv` and `tv`, `is_head`. A bar or a closing mark ends the innermost
activation. `token`, `next`, `exposed` and `actions` are the members of the
nodes. `ReadFile` takes any unread file: the order of a directory is arbitrary.

`CliParse`. One step is one level of the recursion; the outcome of `parse`
is kept in `seen`, that of `parse_execute` in `ran`. Characters are single
values, words are sequences of them.

`CliMatch`. `kind` is the class of the node, `read` the locals of its `cli_match`;
`Read` is one turn of the loop. `Full` and `Incomplete` are what `cli_match` answers if
the word ends here. A word that is refused goes on only where the whole may yet be an
address (`GoesOn`), so that what is refused too early is seen.

`RestModel`. A row is `[table, id, parent, keys, attr]`, with the keys of its
ancestors as in the generated tables. `Get`, `Create` and `Answered` walk the
request's path as `get_by_params` does through `belongs_to`; `Destroy`,
`DestroyUpon` and `NotFound` are `destroy_by_keys`. Each action is one
committed statement; `Crash` drops the request, keeps the rows and counts a stop.
A `save!` that meets the unique index sets `refused`. `RestStore` is what a request
does as a whole, and which beginning of it a stop may leave; `asked` maps to the request
being served, so that a request without its effect is no stutter.

`CliComplete`. A key is pressed on a line; `ParseLine` is `parse`, with `token` the
`ps.token_` it leaves behind; `Look` is what `describe` and `completion_matches` make of
the result; `Answer` and `Fail` are one turn of the loop over `matched_vec_` whose request
the server answers or not; `Show` is what is printed or returned. `kept` is `candidates_`,
which outlives a key: the first value is what an earlier key left there.

`CliBind`. `input` is the `ParamsMap`, `right` and `left` the statement as
`get_bind_token` cuts it up, `func`, `inParams`, `tmp`, `params`, `values` the locals of
`expand`. `Open`, `Close`, `Comma` and `Word` are the four kinds of token; `Take` picks a
binding by its condition; `Assign` binds one name. An address that `inet_aton` does not
take leaves its result unset: any address. A shift by the width of a word is undefined:
`cleared` is one of the two things processors do. `AskBack` and `TypeCandidate` follow a
network from its row through `candidates_by_field` and completion into a second line.

`CliStart`. `pc` is the place in `main` and `Cli::init`; `parents` and `registered` are
the trees made so far, `open` the activations of `mode_traverse`; `Traverse` is one turn of
its loop. `Interrupt` is enabled from `signal_init` on: `end` and then `prompt`, which
dereferences `mode_`. A broken file leaves any part of its definitions.

`RestAssoc`. `Arrive` is the polymorphic path; `GetRoute` or `MakeRoute`, `GetHop` or
`MakeHop`, `GetLink` or `MakeLink` the parts of `get_by_params`; `DestroyLink`,
`SweepRoute` and `SweepHop` the statements of `destroy_by_keys`; `Crash` may come between
any two. `Joined` says which pairs the tables stand for. An id that was freed may be given
again, which the sweeps must not confuse.

Mutants of definitions (`...Early`, `...Alone`) stand before what they mutate.
They are not part of the model; `PROJECT.json` pairs them with the property
that tells them from the code.

## 3. Runs

| Run | Shows | Bounds |
|---|---|---|
| `session` | `ModeDefined`; `RequestAddressed`; refinement of `CliSessionAtomic` (`LineAtATime`); `LineFinishes`, `ClosedTerminates`; the invariant `IInv` of the proofs | the shipped modes VIEW, ENABLE, CONFIG, BGP, INTERFACE, RMAP; 19 lines, at least one for each kind of action, condition and fallback |
| `session_nested` | the same safety on a mode file with three levels, a privileged mode with one above it, an undefined mode | the fallback passes more than one level; a signal inside `exit` can leave the session above the privileged mode |
| `tree_build` | `NothingLost`, `NothingLeaked`, `NextDistinct`, `HiddenAlone` | files with groups, repeated groups, shared beginnings and hidden tokens, read in every order; lines up to `MaxLine` tokens |
| `parse` | `CaretInLine`, `CaretAgrees`, `HelpAgrees`, `CrRuns`; `HelpFresh`, `OffersRight`, `NothingMissed` of TAB and `?` | 23 nodes below the top; some 3,200 lines of up to five words, abbreviated, ambiguous, wrong, too long, with spaces around; a node with candidates on demand and one with those of boot time, every set of two values at the server and every set left from before |
| `match` | IPv4 addresses, prefixes and communities exact; ranges compared as numbers; IPv6 addresses sound, and they and prefixes taken but for the named forms | IPv4: characters 2 3 5 6 . /, words of ten, so that 2.2.2.2/32, 255 and 256 are in reach. IPv6: five groups of up to two digits instead of eight of four, words of eleven: two double colons and a full address both fit the colon limit. Numbers: limits scaled to 65 and 66, `strtoull` to 1000, words of seven, which pass both |
| `bind` | `BoundAsWritten`; `NetworkBound`, `AreaBound`; `RoundTrip` | the shipped bindings of `network`, `area`, `ip route`, `access-list any`, `router ospf` and a list of the other forms; addresses of two numbers of four bits: both sides of a boundary between them and every length, numbers of up to `Digits` |
| `start` | `CommandsReady`, `StartsAtTop`, `CrashesEarly` | three mode files (the shipped one, a nested one, an empty one) and a missing one; a directory of five files, two of them broken, read in every order; 13 command lines; signals unbounded |
| `rest_lists` | all backend properties and refinement of `RestStore`, with stops of the server | the four access list tables and five OSPF tables with keys, without keys and with a `has_one`; two lists, rows and numbers up to `MaxAclRows`, `MaxRows` and `MaxNumber` (two entries side by side, a third after a deletion); two stops, after which requests go on |
| `assoc` | `NoDangling`, `PairsDistinct`, `NothingUnused`; refinement of `RouteStore` (`PairsAtATime`) | two routes, next hops of two tables that share ids, one hop shared by both routes; three ids; one stop |

Each other run expects a violation; see below.

The bounds are small because the code treats lists, lines and rows alike: the
cases are told apart by whether something is absent, single or double, by which
level it is on and by which side of a limit, and each bound leaves room for all
of them. No run uses symmetry.

Deadlock is not checked where a system rightly stops: a session that has
exited, a tree that is built, a line that is parsed or bound, a program at its first
prompt, a word at its bound.

### Fairness

`CliSession`'s fair specification has weak fairness of the program's own steps
(a single thread that is always ready) and of the server's answer. The second
is an assumption: `CliHttp::send_request` sets no timeout, and a server that
never answers blocks the session. Nothing is assumed of the user or of signals;
signals are never fair and never bounded. Nothing else is claimed to be live:
the other components are straight-line code.

### Disagreements found

Each is a run that expects a violation; `PROJECT.json` quotes the line.

- `session_select`: `interface` typed below CONFIG does not end in INTERFACE-NODE,
  since `execute_parent` sets the mode of the level that knew the command after
  the action (`cli_readline.cpp:680`).
- `tree_leaked`: two shipped definitions, `show bgp view WORD (ipv4|ipv6)
  (unicast|multicast) statistics` and `... ipv4 (unicast|multicast) summary`, share
  nodes; when the first is read first, `ipv6 unicast summary` runs the second.
- `complete_values`: after `no network` and a space TAB offers none of the networks
  that are configured: they are filtered by the word before (`cli_readline.cpp:469`).

Seen while modelling, without a run of their own:

- `quit` does nothing in a mode without a parent (`cli.cpp:358`).
- With the files of `tree_leaked` read in the other order, the line `ipv6 unicast
  statistics` is not in the tree.
- `?` shows `<cr>` for lines that Enter refuses (`cli_readline.cpp:205`): `show ip bgp c`,
  which is ambiguous; `default-information originate metric`, where Enter takes `metric` alone
  and misses its value, while `?` takes `metric-type` too and stays at the command before;
  `show r`, where the hidden `show result` makes it ambiguous, and words after a hidden
  one; an unfinished address. `CrRuns` says that these cases are all, and is proved; the second
  was not in it until the proof did not go through.
- `35/8` is a full match of A.B.C.D/M (`cli_tree.cpp:546`) and is read as 0.0.0.35; an
  octet with a leading zero is taken and read as octal, or leaves the address unset
  (`cli_utils.cpp:154`).
- `::`, `2001:db8::` and `::1:2` are refused as IPv6 addresses (`cli_tree.cpp:859`); a
  slash does not end one (`cli_tree.cpp:797`).
- A length of 0 shifts a word by its width (`cli_utils.hpp:90`). `CliBind` takes both outcomes,
  and no property speaks of length 0, of octets with leading zeros or of short addresses.
- An area number is cut to ten characters, leading zeros included (`cli_utils.cpp:68`).
- `no access-list 1 deny A W` removes the permit rule with that address
  (`www/controller.erb:49`).
- The usage text names `--cli-mode`, the options are spelled `--cli_mode`
  (`main.cpp:34`, `main.cpp:49`).
- `prompt()` returns a pointer into a string that is gone (`cli.cpp:388`).
- The signal handlers allocate and write to `cout` (`cli.cpp:63`), which is not
  async-signal-safe; the model takes a handler as one step.

## 4. Proofs

`CliSessionProofs` proves for every mode file, every set of definitions, every
line and every timing of signals:

- `TypeCorrect`: `Spec => []TypeOK`.
- `ModeNeverNull`: `Spec => []ModeDefined`.
- `RequestsAddressed`: `Spec => []RequestAddressed`.

Assumptions, all named and evaluated by TLC: the mode file names a forest of
modes with a privileged mode or none; the definitions are well formed; and for
`RequestsAddressed`, that a command which selects a mode supplies what that mode
asks for. The shipped modes and the definitions of the runs satisfy them. `TokenAssumption`: no mode
keeps a word of the line under a token's own name, so that `handle_actions`, which appends a
word to what is there already (`cli_readline.cpp:586`), finds nothing there; the modes of
`quagga.cli_mode.json` keep PROCESS-ID, NAME, SEQ, IFNAME and AS-NUM. Mode files
without a privileged mode are covered by the theorems and by the run `start`; both session
runs have one.

`RequestAddressed` is not inductive: that a request in flight names the right
things follows from where its parameters came from, some steps before. The
invariant `IInv` (`CliSessionInv`) adds what `input` holds between `Populate`
and the last action (the parameters of the line and of the mode the session was
in), that the mode's parameters were set by the line that entered it, and what
survives a signal in each place: a signal changes `mode` and nothing else, so
the privileged mode, which has no parameters, can be the current mode at any
`pc`. Each action has one lemma step; the data conditions are lemmas on the
records of parameters. The run `session` checks `IInv` by TLC.

`InvariantHolds` is `Spec => []IInv`, from which `RequestsAddressed` follows.

`CliSessionProofs` also proves that the session implements `CliSessionAtomic`:

- `LinesAreAtomic`: `Spec => LineAtATime`.

While a line is executed, `CliSessionAtomic` still sees what the session was when the
line was read, so that each of the line's steps but the last is a stutter; the last one
has to be the whole effect. `AtomicInv` says how far the line has come. `OwnerInv`: the
mode that has the line is to be looked for where `execute_parent` is. `EffectInv`: what
has changed is nothing, or all that the line changes (`HasMoved`), seen from the mode
the line was read in or, after a signal, from the privileged mode; a signal may have
changed the mode after that, or torn an `exit`, which then goes up from the privileged
mode. `LookupInv`: what the input map holds, and that only an action with a condition is
looked up twice. `AtomicInvariant` is `Spec => []AtomicInv`; each action has one step in
the proof, and the actions that change the mode a lemma (`EnterMoves`, `DeriveMoves`,
`UpMoves`, `SignalMoves`), and `LeaveIs` says what an `exit` with a signal inside it
comes to. `Nearest`, which goes up the modes by recursion, exists even if the modes form
a cycle: it is taken from the least set of modes closed under going up (`NearerExists`).
Assumed is what `RequestsAddressed` assumes, since a request that inserts an empty value
would change what a later mode action keeps, and `MovesAssumption`: at most one action
of a command changes the mode, and it has no condition. Of the 1,995 commands in
`cli.json/` none has two such actions, and none has one with a condition.

`CliParseProofs` proves for every tree of definitions, every set of lines and, for
completion, whatever the server holds and whenever it fails:

- `CaretStaysInLine`: `Spec => []CaretInLine`. The assumption it rests on is
  `TopAssumption`: every mode has a keyword to show at its top. `parse` then compares
  something on every line, and the characters that it gives back are characters it has
  read; without it a line could end unrecognized with nothing to subtract from. Both
  recursive parsers are one machine here, so that no induction over the line is needed:
  the invariant relates the rest of the line to what was cut from it.
- `KeysParse`: `CompleteSpec => Spec`; TAB and `?` add nothing to the parser.
- `HelpStaysFresh`: `CompleteSpec => []HelpFresh`, by the set of nodes that the loop over
  the matches has yet to ask for.

and for every finite tree, every way a node may match a word and every set of lines that the
two parsers agree:

- `MarkersAgree`: `Spec => []CaretAgrees`.
- `HelpStaysTrue`: `Spec => []HelpAgrees`.
- `CrIsTrue`: `Spec => []CrRuns`.

By `KeysParse` they hold of completion too. The parsers run one after the other, so the
properties relate two runs over the same line. `AgreeInv` says that a way leads from the place
where Enter is to the place where `?` stopped (`Leads`), unless Enter went by a hidden node;
a step of `parse` at one place can only lead to one other (`OneWay`), so that Enter takes that
step or stops before it. `Leads` is not defined by recursion: it is the least set of places
closed under the steps, which the prover can reason about. Assumed of `Flag` is no more than
that it answers one of the four flags, and of the tree that its nodes are finitely many and a
node that nothing follows is a command.

It also proves for every tree, every line, whatever the server holds and
whichever requests fail:

- `OffersStayRight`: `CompleteSpec => []OffersRight`.
- `NothingStaysMissed`: `CompleteSpec => []NothingMissed`.

The properties are about the word behind the cursor; the program compares with `token_`, the
word that `parse` read last. `TypedIs` relates the two: where `parse` stops and understands the
line, the rest of the line is that word (`HandedOver`), or the line ends in a space and there
is no word, while `token_` is the one before. `ReadInv` says this on top of the invariant of the
parsers, with the fact that `parse` always has a space before it; `TabInv` says which of the
nodes have been asked and what is shown of their answers. Two assumptions are new here, and
TLC evaluates them on the definitions of the run. `KeywordAssumption` is `cli_match` of a
keyword (`cli_tree.cpp:454`), and that beside a keyword nothing takes its name in full.
`ValueAssumption` says of a node with candidates on demand that it matches its values and
what they begin with, and that no node beside it matches them as well: in the shipped
definitions this is A.B.C.D/M after `no network`, which stands alone there.

`CliMatchProofs` proves, for words of any length and any limits, that what the matchers take
is what the names of their tokens say:

- `RangeCorrect`: `Spec => []RangeExact`; `CommunityCorrect`: `Spec => []CommunityExact`;
  `IPv4Correct`: `Spec => []IPv4Exact`.
- `IPv6SoundCorrect`: `Spec => []IPv6AddressSound`; `IPv6TakenCorrect`: `Spec => []IPv6Taken`.

The properties read the whole word, the matchers one character after the other with a few
counters. Every operator that reads a word has a lemma which says what one more character
makes of it (`NumberAppend`, `AppendTyped`, `AppendListed`, `AppendGroups`, ...), and each
matcher an invariant which says what its locals are in terms of the word (`RangeInv`,
`CommunityInv`, `IPv4Reads`, `IPv6Reads`) and that it has refused exactly what is no beginning
any more. `Number` is a recursive function over a word; that it exists for every length, and
what it is for one more digit, follows from the least number for which it would not
(`CounterExists`, `CounterSame`), so that no induction theorem is needed. The harder half is
IPv6. Its matcher keeps four counters and two flags and never looks at a group again, and
whether it may go on is said by it in terms of these and by `IsIPv6` in terms of the groups
of the whole word; `BeginsIPv6` is what both come to. From there `EndIPv6` shows by which one
or two characters an address is completed, and `TakenBegins` that an address in none of the
forms of `Untaken` has only such beginnings; these three forms were found by the run, and the
proof shows that there is no fourth. The assumptions: the five separators are no digits;
the first digit of an octet or of a number of a community is taken unseen, so their limits
are at least 9; and the limits of a range lie below the greatest `unsigned long long`, at
which `strtoull` stops: a definition is read with `asUInt`, of 32 bits (`cli_tree.cpp:172`).
With a range up to 2^64 - 1 every number that is too long would be in it.

`CliBindProofs` proves, for any bindings of any length and any text of the line,

- `BindingAsWritten`: `Spec => []BoundAsWritten`.

The program cuts the right side of a binding into tokens and carries `tmp`, `func`, `params`
and `values` from one to the next; the meaning of a binding knows terms and no tokens.
`BindInv` says where in the statement the interpreter is: before a term (`Waiting`), after
a word (`Passed`), after the name of a functor (`Named`), inside a call (`InCall`) or at the
end (`Gone`); that the values so far are those of the terms so far, and that the parameters
agree with the meaning except for names that were arguments and are not there. What the
functors compute is not used. The lemmas say of each function over a list (`Listing`,
`EvalAll`, `Bound`, `Meaning`) that it exists for every length and what one element more
makes of it. Assumed is the shape of a binding (`BindAssumption`), and `AbsentAssumption`:
`input[token]` makes an empty entry of a name that is not there, and no later condition
and no later word is that name. The meaning would differ without it; TLC
evaluates it on the shipped bindings of the run, and all bindings in `cli.json/` are such.

`CliStartProofs` proves `StartCrashesEarly`, `SessionStartsAtTop` and `CommandsAreReady`
for every mode file, directory and command line. `StartInv` says, for each `pc`, which of
the options read so far counts; that `open[d]` is the last mode of depth `d` and no later
mode is as high, from which the parent of every tree and the mode at the top follow; and
which files are already in the trees. Assumed is that modes have names, no two the same,
and none is deeper by more than one than the mode before it, which is what writing a tree
of objects in order gives.

`RestModelProofs` proves for all tables and requests that satisfy `TableAssumption` and
`RequestAssumption`, any number of rows and any number of stops of the server:

- `NoRowOrphaned`, `RowsStayAlone`, `NoContainerStaysEmpty`: the three invariants.
- `NewRowsComeLast`: `Spec => Appended`.

`RequestAssumption` is what the commands send, and TLC evaluates it on the requests of
the run: what a row has only one of comes with no number on its path or with a number that
the server is to choose, and no command makes a container alone. `RowsDistinct` needs it
and is not inductive. Its proof has to know that the row the request is at is the only one
with that path (from `NoOrphan`), and that behind a number the server has just chosen
nothing is there yet (`Chosen` in `GetInv`), since `get_by_params` then creates without
looking. `NoOrphan` in turn needs `RowsDistinct`: `dependent: :destroy` of a `has_one`
loads one row, so that a second one would be orphaned (`CascadeDown`). `Accounted` names,
for each `pc`, the one container that may be empty; that the cascade takes nothing it
should not (`CascadeUp`) makes it the parent of the row destroyed. `set_next` needs a
greatest number to exist, so `RowsInv` carries a bound for the numbers in use.

`RestStoreProofs` proves, from the same assumptions, that `RestModel` implements `RestStore`:

- `RequestsHaveTheirEffect`: `Spec => RequestAtATime`.

Every statement of a request but the last is a stutter of `RestStore`, which still sees the
rows as they were when the request came; the last one, or a stop of the server, has to be the
whole effect, or a beginning of it, on *those* rows. `StoreInv` says how far the request has
come: one that makes rows has made the promised nodes that were missing down to the level it
is at, and its keys so far are the promised keys (`Making`); one that removes rows has found a
node that it names, which is gone with all below it and with the containers emptied down to
the level it looks at (`Sweeping`). The lemmas behind the steps are where the two sides
differ most. `CascadeIsUnder`: the cascade, which follows ids, takes the nodes below by keys.
`EmptyIsEmptied`: a container without rows now is one that held nothing but the node and
what is below it then. `NumberAsPromised`: `set_next` divides the greatest number in the list
*as it is now* and adds one; `RestStore` promises the least multiple of the step after all
numbers of the list *as it was when the request came*. They agree since the list is either
unchanged or was made by this request and is empty. `RequestAssumption` has one more clause for
that, which is true of the shipped commands: whoever makes a row leaves the numbers on its
path to the server (`:NULL` in the paths of `cli.json/`).

`RestAssocProofs` proves for all sets of routes and next hops, all ids and any number of
stops of the server:

- `NeverDangling`, `RowsStayDistinct` (of `PairsDistinct`), `NothingStaysUnused`: the three
  invariants.
- `PairsRefined`: `Spec => PairsAtATime`, the refinement of `RouteStore`, with one lemma
  for each statement that changes a table.

Assumed is that a next hop is named by its table and its key. `NoDangling` is not
inductive: that a route may be swept needs that what a request has found or made is still
there at each `pc`, and that ids are unambiguous. `AssocInv` has these three parts.
`NothingUnused` speaks of the time between requests; `Accounted` adds, for each `pc`, which
row the request in progress answers for.

Model-checked only:

- liveness, which is out of the prover's reach;
- `NetworkBound`, `AreaBound` and `RoundTrip` of `CliBind`, which are about the digits and the
  powers that the functors of a few shipped bindings compute with: the provers know nothing
  of `^`, not even that a power of two is a number;
- the command tree: the meaning of a defun is recursion over data; `NothingLost` and
  `NothingLeaked` are not true of all definitions (`tree_leaked`, and the line above that is
  not in the tree), nor is `HiddenAlone` where they fail; that siblings are distinct (`NextDistinct`) is not true of every set of
  definitions, since alternatives in a repeated group can make `build_recursive` enter the same
  next node twice. It holds of the definitions of the run, and what it assumes of definitions
  in general is not known.

## 5. Plan

Order of work, most important behaviour first. Done: 1 to 14.

1. `CliSession` with `CliSessionAtomic`; its type and safety theorems.
2. `RestModel` with `RestStore`: lists and OSPF tables, crashes.
3. `CliTreeBuild`.
4. `CliParse`.
5. `CliMatch`.
6. `RestAssoc` with `RouteStore`: routes and next hops, and the proof of both.
7. `CliComplete`: candidates of nodes under failing requests, the word the cursor is at.
8. `CliBind`: the interpreter against what a binding says; networks, areas, the way back.
9. `CliStart`: options, files and signals before the session.
10. Proofs for all parameters: `CaretInLine`, the start, the tables of `RestModel`.
11. Proofs that relate two descriptions: the agreement of the parsers,
    completion and the word behind the cursor, `RestModel` and `RestStore`.
12. Proofs over words of any length: the matchers.
13. Proofs over lists of bindings: what a command's bindings say.
14. The proof that the session implements `CliSessionAtomic`.
15. Left: an assumption on definitions from which `NextDistinct` of `CliTreeBuild` follows.

## 6. Not modelled

- The layout of help, prompts and terminal size; history; debug output.
- `www/setup.rb` as a program: it runs generators and edits files once.
- The scaffold's id-based HTML methods: no command definition uses them.
- Several server workers at once: `RestModel` and `RestAssoc` take requests one at a time.
- The session and the backend in one model: `CliSession` takes any answer of the server
  and `RestModel` any request, so that their product has no behaviour that the two
  have not; what the user sees of a failed request is a message.
- Which message follows a failed transfer, where `status_` is read without being set.
- Requests that no shipped command sends. Of association tables: POST with attributes of the
  row, and the generated paths of a route or a next hop alone; `ip route` and `no ip route`
  send PUT and DELETE on the paths of the pair, and their forms with a distance send nothing
  (`zebra_vty.cli.json`). Of lists: numbers given by hand.
- Tables whose attributes serve as keys (`as-key`, only `ip_community.table.json`), and paths
  with two numbered keys, where `find_by_params` leaves out all numbers or none.
- Libraries: readline, libcurl, jsoncpp, ActiveRecord beyond the calls above.
