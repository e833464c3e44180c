-------------------------- MODULE CliSessionProofs --------------------------
(***************************************************************************)
(* Proofs about CliSession: its type invariant, that mode_ is never null     *)
(* once the mode file is read, that every request is addressed with what    *)
(* the user typed, and that every line takes effect as in CliSessionAtomic. *)
(***************************************************************************)
EXTENDS CliSessionInv, TLAPS

USE DEF cliVars, execVars, iterVars, histVars

\* The kinds of value the definitions give, in the form the proofs use them.
LEMMA ConstantTypes ==
  /\ NoParams \in ParamsMaps
  /\ \A l \in Lines : Typed[l] \in ParamsMaps
  /\ \A l \in Lines, m \in Modes : Parsed[l][m] \in Commands \cup Errors
  /\ \A m \in Modes : Parent[m] \in Modes \cup {NoMode}
  /\ Startup \in Modes /\ Privileged \in Modes \cup {NoMode}
  /\ NoMode \notin Modes /\ NoLine \notin Lines
  /\ NullKey \in Entries
BY ModeAssumption, LineAssumption, NameAssumption
   DEF ModeAssumption, LineAssumption, NameAssumption, NoParams, ParamsMaps, Entries

LEMMA ActionTypes ==
  ASSUME NEW c \in Commands
  PROVE  /\ Actions[c] \in Seq(AnyAction)
         /\ \A i \in DOMAIN Actions[c] : Actions[c][i] \in AnyAction
BY LineAssumption DEF LineAssumption

\* The input map of a line is a map.
LEMMA MapTypes ==
  ASSUME NEW f \in ParamsMaps, NEW g \in ParamsMaps
  PROVE  [n \in Names |-> IF n = NullName THEN NullKey
                          ELSE IF f[n] # Absent THEN f[n] ELSE g[n]] \in ParamsMaps
BY ConstantTypes DEF ParamsMaps, Entries

\* A mode change leads from a mode to a mode.
LEMMA ModeTypes ==
  ASSUME mode \in Modes
  PROVE  /\ \A m \in Modes : ModeUp(m) \in Modes
         /\ \A m : ModeOrSame(m) \in Modes
         /\ MoveUp \/ CliExit => mode' \in Modes
BY ConstantTypes DEF ModeUp, MoveUp, ModeOrSame, CliExit, ExitUndisturbed, ExitTorn

\* A signal that is lost still came.
LEMMA SignalTypes ==
  ASSUME signalled \in BOOLEAN, MoveUp \/ CliExit
  PROVE  signalled' \in BOOLEAN /\ (signalled => signalled')
BY DEF MoveUp, CliExit, ExitUndisturbed, ExitTorn

LEMMA ExitTypes ==
  ASSUME exit \in BOOLEAN, CliExit
  PROVE  exit' \in BOOLEAN
BY DEF CliExit, ExitUndisturbed, ExitTorn

LEMMA BaseInit == Init => TypeOK /\ Control
<1> SUFFICES ASSUME Init PROVE TypeOK /\ Control
  OBVIOUS
<1>1. pc \in Places /\ closed \in BOOLEAN /\ mode \in Modes \cup {NoMode} /\ params \in ParamsMaps
  BY ConstantTypes DEF Init, Places
<1>2. exit \in BOOLEAN /\ debug \in BOOLEAN /\ result \in {"none", "reply", "nothing"}
  BY DEF Init
<1>3. line \in Lines \cup {NoLine} /\ tree \in Modes \cup {NoMode} /\ fallback \in BOOLEAN
  BY DEF Init
<1>4. input \in ParamsMaps /\ it \in Nat \ {0} /\ find \in {"params", "keywords"}
  BY ConstantTypes DEF Init
<1>5. entry \in Lines \cup {NoLine} /\ signalled \in BOOLEAN
  BY DEF Init
<1>6. before \in [mode : Modes \cup {NoMode}, params : ParamsMaps,
                  entry : Lines \cup {NoLine}, signalled : BOOLEAN]
  BY ConstantTypes DEF Init
<1>7. Control
  BY DEF Init, Control, Executing, Handling
<1>8. QED
  BY <1>1, <1>2, <1>3, <1>4, <1>5, <1>6, <1>7 DEF TypeOK

\* The iterator stays a position whatever it does next.
LEMMA NextLookupTypes ==
  ASSUME TypeOK, NextLookup
  PROVE  it' \in Nat \ {0} /\ find' \in {"params", "keywords"}
BY DEF TypeOK, NextLookup

\* Every variable keeps its type: where an action computes a map or a mode,
\* MapTypes and ModeTypes give its type.
LEMMA TypeStep == TypeOK /\ Control /\ [Next]_vars => TypeOK'
<1> SUFFICES ASSUME TypeOK, Control, [Next]_vars PROVE TypeOK'
  OBVIOUS
<1> USE ConstantTypes DEF TypeOK, Places
<1>1. CASE ModeRead  BY <1>1 DEF ModeRead
<1>2. CASE Loaded  BY <1>2 DEF Loaded
<1>3. CASE Finish  BY <1>3 DEF Finish
<1>4. CASE EndOfInput
  BY <1>4, ModeTypes, SignalTypes, ExitTypes DEF EndOfInput, Control
<1>5. CASE Parse
  <2>1. tree \in Modes
    BY <1>5 DEF Parse, Control, Executing
  <2>2. pc' \in Places /\ tree' \in Modes /\ fallback' \in BOOLEAN
    BY <1>5, <2>1 DEF Parse
  <2>3. QED
    BY <1>5, <2>2 DEF Parse
<1>6. CASE ParseParent
  <2>1. tree \in Modes
    BY <1>6 DEF ParseParent, Control, Executing
  <2>2. pc' \in Places /\ tree' \in Modes
    BY <1>6, <2>1 DEF ParseParent
  <2>3. QED
    BY <1>6, <2>2 DEF ParseParent
<1>7. CASE Populate
  <2>1. line \in Lines
    BY <1>7 DEF Populate, Control, Executing
  <2>2. input' \in ParamsMaps
    <3>1. Typed[line] \in ParamsMaps
      BY <2>1
    <3>2. input' = [n \in Names |-> IF n = NullName THEN NullKey
                                    ELSE IF Typed[line][n] # Absent THEN Typed[line][n]
                                    ELSE params[n]]
      BY <1>7 DEF Populate
    <3>3. QED
      BY <3>1, <3>2, MapTypes
  <2>3. QED
    BY <1>7, <2>2 DEF Populate
<1>8. CASE Skip  BY <1>8, NextLookupTypes DEF Skip
<1>9. CASE SendRequest
  <2>1. input' \in ParamsMaps
    <3>1. input' = [n \in Names |-> IF n \in Act.keys /\ input[n] = Absent THEN Empty ELSE input[n]]
      BY <1>9 DEF SendRequest, WithKeys
    <3>2. \A n \in Names : input'[n] \in Entries
      BY <3>1, ConstantTypes, NameAssumption DEF ParamsMaps, Entries
    <3>3. QED
      BY <3>1, <3>2 DEF ParamsMaps
  <2>2. pc' \in Places /\ it' \in Nat \ {0} /\ find' \in {"params", "keywords"}
    BY <1>9, NextLookupTypes DEF SendRequest
  <2>3. QED
    BY <1>9, <2>1, <2>2 DEF SendRequest
<1>10. CASE EnterMode  BY <1>10, ModeTypes DEF EnterMode, Dispatching, Control
<1>11. CASE DeriveParams
  <2>1. params' \in ParamsMaps
    <3>1. params' = [n \in Names |-> IF n \in Act.params THEN input[n] ELSE Absent]
      BY <1>11 DEF DeriveParams
    <3>2. \A n \in Names : params'[n] \in Entries
      BY <3>1, ConstantTypes, NameAssumption DEF ParamsMaps, Entries
    <3>3. QED
      BY <3>1, <3>2 DEF ParamsMaps
  <2>2. QED
    BY <1>11, <2>1, NextLookupTypes DEF DeriveParams
<1>12. CASE UpMode
  BY <1>12, ModeTypes, SignalTypes, NextLookupTypes DEF UpMode, Dispatching, Control
<1>13. CASE BuiltIn
  <2>1. mode \in Modes
    BY <1>13 DEF BuiltIn, Dispatching, Control
  <2>2. mode' \in Modes /\ exit' \in BOOLEAN /\ signalled' \in BOOLEAN
    BY <1>13, <2>1, ModeTypes, SignalTypes, ExitTypes DEF BuiltIn
  <2>3. debug' \in BOOLEAN
    BY <1>13 DEF BuiltIn
  <2>4. QED
    BY <1>13, <2>2, <2>3, NextLookupTypes DEF BuiltIn
<1>14. CASE Handled  BY <1>14 DEF Handled
<1>15. CASE Restore  BY <1>15 DEF Restore
<1>16. CASE Answer  BY <1>16, NextLookupTypes DEF Answer
<1>17. ASSUME NEW l \in Lines, ReadLine(l) PROVE TypeOK'  BY <1>17 DEF ReadLine
<1>18. CASE Close  BY <1>18 DEF Close
<1>19. CASE Interrupt
  <2>1. pc' \in Places
    BY <1>19 DEF Interrupt
  <2>2. mode' \in Modes \cup {NoMode} /\ signalled' \in BOOLEAN
    BY <1>19, ModeTypes DEF Interrupt
  <2>3. QED
    BY <1>19, <2>1, <2>2 DEF Interrupt
<1>20. CASE UNCHANGED vars  BY <1>20 DEF vars
<1>21. QED
  BY <1>1, <1>2, <1>3, <1>4, <1>5, <1>6, <1>7, <1>8, <1>9, <1>10, <1>11, <1>12,
     <1>13, <1>14, <1>15, <1>16, <1>17, <1>18, <1>19, <1>20 DEF Next, Program, User

\* The program stays where its control flow allows: a mode once it is read, a
\* command once one is found, an action of the right kind while it runs.
LEMMA ControlStep == TypeOK /\ Control /\ [Next]_vars => Control'
<1> SUFFICES ASSUME TypeOK, Control, [Next]_vars PROVE Control'
  OBVIOUS
<1> USE ConstantTypes DEF Control, Executing, Handling, Cmd, Act
<1>1. CASE ModeRead  BY <1>1 DEF ModeRead
<1>2. CASE Loaded  BY <1>2 DEF Loaded
<1>3. CASE Finish  BY <1>3 DEF Finish
<1>4. CASE EndOfInput  BY <1>4, ModeTypes DEF EndOfInput
<1>5. CASE Parse  BY <1>5 DEF Parse
<1>6. CASE ParseParent  BY <1>6 DEF ParseParent
<1>7. CASE Populate  BY <1>7 DEF Populate
<1>8. CASE Skip  BY <1>8 DEF Skip
<1>9. CASE SendRequest  BY <1>9 DEF SendRequest, Dispatching, TypeOK
<1>10. CASE EnterMode  BY <1>10, ModeTypes DEF EnterMode, Dispatching, TypeOK
<1>11. CASE DeriveParams  BY <1>11 DEF DeriveParams
<1>12. CASE UpMode  BY <1>12, ModeTypes DEF UpMode, Dispatching
<1>13. CASE BuiltIn  BY <1>13, ModeTypes DEF BuiltIn, Dispatching
<1>14. CASE Handled  BY <1>14 DEF Handled
<1>15. CASE Restore  BY <1>15 DEF Restore
<1>16. CASE Answer  BY <1>16 DEF Answer
<1>17. ASSUME NEW l \in Lines, ReadLine(l) PROVE Control'  BY <1>17 DEF ReadLine
<1>18. CASE Close  BY <1>18 DEF Close
<1>19. CASE Interrupt  BY <1>19, ModeTypes DEF Interrupt
<1>20. CASE UNCHANGED vars  BY <1>20 DEF vars
<1>21. QED
  BY <1>1, <1>2, <1>3, <1>4, <1>5, <1>6, <1>7, <1>8, <1>9, <1>10, <1>11, <1>12,
     <1>13, <1>14, <1>15, <1>16, <1>17, <1>18, <1>19, <1>20 DEF Next, Program, User

\* Every variable keeps its type, whatever the definitions and the signals.
THEOREM TypeCorrect == Spec => []TypeOK
BY BaseInit, TypeStep, ControlStep, PTL DEF Spec

\* prompt(), execute() and exit() never meet a null mode_ once the mode file is read.
THEOREM ModeNeverNull == Spec => []ModeDefined
<1>1. Control => ModeDefined
  BY DEF Control, ModeDefined
<1>2. QED
  BY <1>1, BaseInit, TypeStep, ControlStep, PTL DEF Spec

-------------------------------------------------------------------------------
\* The modes one ends up in without selecting them ask for nothing.
LEMMA NothingNeeded ==
  /\ \A m \in Modes : Parent[m] # NoMode => Needs[Parent[m]] = {}
  /\ Privileged # NoMode => Needs[Privileged] = {}
  /\ Needs[Startup] = {}
BY DefinitionAssumption DEF DefinitionAssumption

\* So exit, quit, the end of the input and a signal keep the parameters valid.
LEMMA LeavingKeepsSupplied ==
  ASSUME mode \in Modes, Supplied(mode, params, entry)
  PROVE  /\ Supplied(ModeOrSame(Privileged), params, entry)
         /\ MoveUp \/ CliExit => Supplied(mode', params, entry)
<1>1. Supplied(ModeOrSame(Privileged), params, entry)
  BY NothingNeeded, ModeAssumption DEF ModeAssumption, ModeOrSame, Supplied
<1>2. ASSUME NEW m \in Modes, Supplied(m, params, entry)
      PROVE  Supplied(ModeUp(m), params, entry)
  BY <1>2, NothingNeeded DEF ModeUp, Supplied
<1>3. ModeOrSame(Privileged) \in Modes
  BY ModeTypes
<1>4. MoveUp \/ CliExit => mode' \in {mode, ModeUp(mode), ModeOrSame(Privileged), ModeUp(ModeOrSame(Privileged))}
  BY DEF MoveUp, CliExit, ExitUndisturbed, ExitTorn
<1> QED BY <1>1, <1>2, <1>3, <1>4

\* The action the iterator is at when the lookup finds it may run for the line:
\* no parameter left over from an earlier line decides it.
LEMMA FoundMayRun ==
  ASSUME TypeOK, Control, InputInv, pc = "dispatch", it <= Len(Actions[Cmd]), Found
  PROVE  /\ line \in Lines /\ tree \in Modes /\ Cmd \in Commands
         /\ it \in DOMAIN Actions[Cmd] /\ Act \in AnyAction
         /\ MayRun(line, Act)
<1>1. line \in Lines /\ tree \in Modes /\ Cmd \in Commands
  BY DEF Control, Executing, Handling
<1>2. it \in DOMAIN Actions[Cmd]
  BY <1>1, ActionTypes DEF TypeOK
<1>3. Act \in AnyAction
  BY <1>1, <1>2, ActionTypes DEF Act
<1>4. CASE Act.cond \in Names /\ input[Act.cond] # Absent
  <2>1. Act.cond \in Conditions
    BY <1>1, <1>2, <1>4 DEF Conditions, Act
  <2>2. Act.cond # NullName
    BY <2>1, DefinitionAssumption DEF DefinitionAssumption
  <2>3. Typed[line][Act.cond] # Absent
    BY <1>4, <2>1, <2>2 DEF InputInv, Handling
  <2>4. QED
    BY <1>1, <1>2, <1>3, <1>4, <2>3 DEF MayRun
<1>5. CASE Act.cond = "*" \/ Act.cond \in Keywords[line]
  BY <1>1, <1>2, <1>3, <1>5 DEF MayRun
<1>6. QED
  BY <1>4, <1>5 DEF Found

LEMMA InvInit == Init => ParamsInv /\ LineInv /\ InputInv
BY ModeAssumption DEF ModeAssumption, Init, ParamsInv, LineInv, InputInv, Executing, Handling,
   NoParams, Conditions

\* The parameters stay those of the mode the session is in.
LEMMA ParamsStep == IInv /\ TypeOK' /\ Control' /\ [Next]_vars => ParamsInv'
<1> SUFFICES ASSUME IInv, TypeOK', Control', [Next]_vars PROVE ParamsInv'
  OBVIOUS
<1> USE DEF IInv, ParamsInv, Act, Cmd
<1>1. CASE ModeRead  BY <1>1, NothingNeeded DEF ModeRead, Supplied, TypeOK, ModeAssumption
<1>2. CASE Loaded  BY <1>2 DEF Loaded, Supplied
<1>3. CASE Finish  BY <1>3 DEF Finish, Supplied
<1>4. CASE EndOfInput
  BY <1>4, LeavingKeepsSupplied DEF EndOfInput, Supplied, Control
<1>5. CASE Parse  BY <1>5 DEF Parse, Supplied
<1>6. CASE ParseParent  BY <1>6 DEF ParseParent, Supplied
<1>7. CASE Populate  BY <1>7 DEF Populate, Supplied
<1>8. CASE Skip  BY <1>8 DEF Skip, Supplied
<1>9. CASE SendRequest  BY <1>9 DEF SendRequest, Dispatching, Supplied
<1>10. CASE EnterMode
  <2>1. /\ line \in Lines /\ tree \in Modes /\ Cmd \in Commands
        /\ it \in DOMAIN Actions[Cmd] /\ MayRun(line, Act) /\ Act.kind = "name"
    BY <1>10, FoundMayRun DEF EnterMode, Dispatching
  <2>2. Act.name \in Modes
    BY <2>1, DefinitionAssumption DEF DefinitionAssumption
  <2>3. mode' = Act.name
    BY <1>10, <2>2 DEF EnterMode, ModeOrSame
  <2>4. QED
    BY <1>10, <2>3 DEF EnterMode
<1>11. CASE DeriveParams
  <2>1. /\ line \in Lines /\ tree \in Modes /\ Cmd \in Commands
        /\ it \in DOMAIN Actions[Cmd] /\ Act.kind = "name"
    BY <1>11 DEF DeriveParams, Control, Executing, Handling
  <2>2. MayRun(line, Act)
    BY <1>11 DEF DeriveParams, InputInv
  <2>3. Act.params \cap Conditions = {}
    BY <2>1, DefinitionAssumption DEF DefinitionAssumption
  <2>4. params' = [n \in Names |-> IF n \in Act.params THEN input[n] ELSE Absent]
    BY <1>11 DEF DeriveParams
  <2>5. \A n \in Conditions : params'[n] = Absent /\ before'.params[n] = Absent
    BY <1>11, <2>3, <2>4 DEF DeriveParams, Conditions
  <2>6. mode' = mode /\ entry' = line /\ pc' = "dispatch"
    BY <1>11 DEF DeriveParams
  <2>7. ASSUME mode = Act.name, NEW n \in Needs[mode]
        PROVE  params'[n] \in Values /\ params'[n] = Typed[line][n]
    <3>1. n \in Act.params /\ Typed[line][n] \in Values
      BY <2>1, <2>2, <2>7, DefinitionAssumption DEF DefinitionAssumption
    <3>2. n \in Names \ {NullName} /\ Typed[line][n] # Absent
      <4>1. mode \in Modes
        BY <1>11 DEF DeriveParams, Control
      <4>2. QED
        BY <2>7, <3>1, <4>1, NameAssumption DEF NameAssumption, Needs
    <3>3. input[n] = Typed[line][n]
      BY <1>11, <3>2 DEF DeriveParams, InputInv, Handling
    <3>4. QED
      BY <2>4, <3>1, <3>2, <3>3
  <2>8. Supplied(mode, params', line)
    BY <1>11, <2>1, <2>7 DEF DeriveParams, Supplied
  <2>9. QED
    BY <2>5, <2>6, <2>8
<1>12. CASE UpMode
  BY <1>12, LeavingKeepsSupplied DEF UpMode, Dispatching, Supplied, Control
<1>13. CASE BuiltIn
  BY <1>13, LeavingKeepsSupplied DEF BuiltIn, Dispatching, Supplied, Control
<1>14. CASE Handled  BY <1>14 DEF Handled, Supplied
<1>15. CASE Restore  BY <1>15 DEF Restore, Supplied, LineInv, Executing
<1>16. CASE Answer  BY <1>16 DEF Answer, Supplied
<1>17. ASSUME NEW l \in Lines, ReadLine(l) PROVE ParamsInv'
  BY <1>17 DEF ReadLine, Supplied
<1>18. CASE Close  BY <1>18 DEF Close, Supplied
<1>19. CASE Interrupt
  <2>1. /\ UNCHANGED <<params, line, tree, input, it, entry, before>>
        /\ mode' = mode \/ (mode \in Modes /\ mode' = Privileged /\ Privileged # NoMode)
        /\ pc' = pc \/ mode' \notin Modes
    <3>1. mode = NoMode => mode' = mode
      BY <1>19 DEF Interrupt
    <3>2. mode # NoMode => mode \in Modes /\ mode' = ModeOrSame(Privileged)
      BY <1>19 DEF Interrupt, TypeOK
    <3>3. pc' = pc \/ mode = NoMode
      BY <1>19 DEF Interrupt
    <3>4. UNCHANGED <<params, line, tree, input, it, entry, before>>
      BY <1>19 DEF Interrupt
    <3>5. QED
      BY <3>1, <3>2, <3>3, <3>4, ModeAssumption DEF ModeAssumption, ModeOrSame
  <2>2. (pc' # "derive" /\ mode' \in Modes) => Supplied(mode', params', entry')
    BY <2>1, NothingNeeded, ModeAssumption DEF ModeAssumption, Supplied
  <2>3. pc' = "derive" => (mode' = Act.name \/ Needs[mode'] = {})
    BY <1>19, <2>1, NothingNeeded DEF Interrupt
  <2>4. QED
    BY <2>1, <2>2, <2>3
<1>20. CASE UNCHANGED vars  BY <1>20 DEF vars, Supplied
<1>21. QED
  BY <1>1, <1>2, <1>3, <1>4, <1>5, <1>6, <1>7, <1>8, <1>9, <1>10, <1>11, <1>12,
     <1>13, <1>14, <1>15, <1>16, <1>17, <1>18, <1>19, <1>20 DEF Next, Program, User

\* A line keeps the parameters the user saw until its input map is made of them.
LEMMA LineStep == IInv /\ TypeOK' /\ Control' /\ [Next]_vars => LineInv'
<1> SUFFICES ASSUME IInv, TypeOK', Control', [Next]_vars PROVE LineInv'
  OBVIOUS
<1> USE DEF IInv, LineInv, Executing, Handling, Supplied
<1>1. CASE ModeRead  BY <1>1 DEF ModeRead
<1>2. CASE Loaded  BY <1>2 DEF Loaded
<1>3. CASE Finish  BY <1>3 DEF Finish
<1>4. CASE EndOfInput  BY <1>4 DEF EndOfInput
<1>5. CASE Parse  BY <1>5, NothingNeeded DEF Parse, Control
<1>6. CASE ParseParent  BY <1>6, NothingNeeded DEF ParseParent, Control
<1>7. CASE Populate  BY <1>7 DEF Populate
<1>8. CASE Skip  BY <1>8 DEF Skip
<1>9. CASE SendRequest  BY <1>9 DEF SendRequest, Dispatching
<1>10. CASE EnterMode  BY <1>10 DEF EnterMode, Dispatching
<1>11. CASE DeriveParams  BY <1>11 DEF DeriveParams
<1>12. CASE UpMode  BY <1>12 DEF UpMode, Dispatching
<1>13. CASE BuiltIn  BY <1>13 DEF BuiltIn, Dispatching
<1>14. CASE Handled  BY <1>14 DEF Handled
<1>15. CASE Restore  BY <1>15 DEF Restore
<1>16. CASE Answer  BY <1>16 DEF Answer
<1>17. ASSUME NEW l \in Lines, ReadLine(l) PROVE LineInv'
  BY <1>17 DEF ReadLine, ParamsInv, Control
<1>18. CASE Close  BY <1>18 DEF Close
<1>19. CASE Interrupt  BY <1>19 DEF Interrupt
<1>20. CASE UNCHANGED vars  BY <1>20 DEF vars
<1>21. QED
  BY <1>1, <1>2, <1>3, <1>4, <1>5, <1>6, <1>7, <1>8, <1>9, <1>10, <1>11, <1>12,
     <1>13, <1>14, <1>15, <1>16, <1>17, <1>18, <1>19, <1>20 DEF Next, Program, User

\* The input map keeps what the line and its mode gave it: the empty values
\* that operator[] inserts replace no value and satisfy no condition.
LEMMA InputStep == IInv /\ TypeOK' /\ Control' /\ [Next]_vars => InputInv'
<1> SUFFICES ASSUME IInv, TypeOK', Control', [Next]_vars PROVE InputInv'
  OBVIOUS
<1> USE DEF IInv, InputInv, Handling, Act, Cmd
<1>1. CASE ModeRead  BY <1>1 DEF ModeRead
<1>2. CASE Loaded  BY <1>2 DEF Loaded
<1>3. CASE Finish  BY <1>3 DEF Finish
<1>4. CASE EndOfInput  BY <1>4 DEF EndOfInput
<1>5. CASE Parse  BY <1>5 DEF Parse
<1>6. CASE ParseParent  BY <1>6 DEF ParseParent
<1>7. CASE Populate
  <2>1. \A n \in Names \ {NullName} :
           input'[n] = IF Typed[line][n] # Absent THEN Typed[line][n] ELSE before.params[n]
    BY <1>7 DEF Populate, LineInv
  <2>2. \A n \in Conditions : n # NullName /\ n \in Names /\ before.params[n] = Absent
    BY DefinitionAssumption DEF DefinitionAssumption, Conditions, ParamsInv
  <2>3. pc' = "dispatch" /\ line' = line /\ before' = before
    BY <1>7 DEF Populate
  <2>4. QED
    BY <2>1, <2>2, <2>3
<1>8. CASE Skip  BY <1>8 DEF Skip
<1>9. CASE SendRequest
  <2>1. /\ line \in Lines /\ tree \in Modes /\ Cmd \in Commands
        /\ it \in DOMAIN Actions[Cmd] /\ MayRun(line, Act) /\ Act.kind = "http"
    BY <1>9, FoundMayRun DEF SendRequest, Dispatching
  <2>2. \A n \in Names : input'[n] = IF n \in Act.keys /\ input[n] = Absent THEN Empty ELSE input[n]
    BY <1>9 DEF SendRequest, WithKeys
  <2>3. ASSUME NEW n \in Conditions, Typed[line][n] = Absent PROVE n \notin Act.keys
    <3>1. ~Asks(line, tree, n)
      BY <2>1, <2>3, DefinitionAssumption DEF DefinitionAssumption
    <3>2. QED
      BY <2>1, <3>1 DEF Asks
  <2>4. UNCHANGED <<line, tree, before>> /\ pc \in Handling
    BY <1>9 DEF SendRequest, Dispatching
  <2>5. \A n \in Names \ {NullName} :
         /\ Typed[line][n] # Absent => input'[n] = Typed[line][n]
         /\ (Typed[line][n] = Absent /\ before.params[n] # Absent) => input'[n] = before.params[n]
         /\ (n \in Conditions /\ Typed[line][n] = Absent) => input'[n] = Absent
    BY <2>2, <2>3, <2>4
  <2>6. pc' \in {"waiting", "derive"} => MayRun(line, Act)' /\ Act' = Act
    BY <1>9, <2>1 DEF SendRequest, Dispatching, MayRun
  <2>7. QED
    BY <2>4, <2>5, <2>6 DEF MayRun
<1>10. CASE EnterMode
  <2>1. MayRun(line, Act)
    BY <1>10, FoundMayRun DEF EnterMode, Dispatching
  <2>2. QED
    BY <1>10, <2>1 DEF EnterMode, Dispatching, MayRun
<1>11. CASE DeriveParams  BY <1>11 DEF DeriveParams
<1>12. CASE UpMode  BY <1>12 DEF UpMode, Dispatching
<1>13. CASE BuiltIn  BY <1>13 DEF BuiltIn, Dispatching
<1>14. CASE Handled  BY <1>14 DEF Handled
<1>15. CASE Restore  BY <1>15 DEF Restore
<1>16. CASE Answer  BY <1>16 DEF Answer
<1>17. ASSUME NEW l \in Lines, ReadLine(l) PROVE InputInv'  BY <1>17 DEF ReadLine
<1>18. CASE Close  BY <1>18 DEF Close, MayRun
<1>19. CASE Interrupt  BY <1>19 DEF Interrupt, MayRun
<1>20. CASE UNCHANGED vars  BY <1>20 DEF vars, MayRun
<1>21. QED
  BY <1>1, <1>2, <1>3, <1>4, <1>5, <1>6, <1>7, <1>8, <1>9, <1>10, <1>11, <1>12,
     <1>13, <1>14, <1>15, <1>16, <1>17, <1>18, <1>19, <1>20 DEF Next, Program, User

\* A request is addressed with what was typed on the line, or on the line that
\* entered the mode: the command needs nothing else of its mode.
LEMMA Addressed == IInv => RequestAddressed
<1> SUFFICES ASSUME IInv, pc = "waiting", NEW n \in Act.keys \ {NullName}
             PROVE  /\ input[n] \in Values
                    /\ \/ input[n] = Typed[line][n]
                       \/ before.entry # NoLine /\ input[n] = Typed[before.entry][n]
  BY DEF RequestAddressed
<1> USE DEF IInv
<1>1. /\ line \in Lines /\ tree \in Modes /\ Cmd \in Commands
      /\ it \in DOMAIN Actions[Cmd] /\ Act.kind = "http" /\ MayRun(line, Act)
  BY DEF Control, InputInv, Executing, Handling
<1>2. Act \in HttpActions
  <2>1. Act \in AnyAction
    BY <1>1, ActionTypes DEF Act
  <2>2. QED
    BY <1>1, <2>1 DEF AnyAction, HttpActions, NameActions, UpActions, CallActions
<1>3. n \in Names \ {NullName}
  BY <1>2 DEF HttpActions
<1>4. CASE Typed[line][n] # Absent
  <2>1. Typed[line][n] \in Values
    BY <1>1, <1>3, <1>4, ConstantTypes, DefinitionAssumption
       DEF DefinitionAssumption, ParamsMaps, Entries
  <2>2. QED
    BY <1>3, <1>4, <2>1 DEF InputInv, Handling
<1>5. CASE Typed[line][n] = Absent
  <2>1. n \in Needs[tree]
    BY <1>1, <1>3, <1>5 DEF Needs, Asks, Act, Cmd
  <2>2. /\ before.entry \in Lines /\ before.params[n] \in Values
        /\ before.params[n] = Typed[before.entry][n]
    BY <2>1 DEF LineInv, Supplied, Executing, Handling
  <2>3. input[n] = before.params[n]
    BY <1>3, <1>5, <2>2, NameAssumption DEF NameAssumption, InputInv, Handling
  <2>4. QED
    BY <2>2, <2>3, LineAssumption DEF LineAssumption
<1>6. QED
  BY <1>4, <1>5

\* The invariant that the requests' addresses follow from, for all definitions that
\* supply each mode with the parameters its commands ask for.
THEOREM InvariantHolds == Spec => []IInv
<1>1. Init => IInv
  BY BaseInit, InvInit DEF IInv
<1>2. IInv /\ [Next]_vars => IInv'
  BY TypeStep, ControlStep, ParamsStep, LineStep, InputStep DEF IInv
<1>3. QED
  BY <1>1, <1>2, PTL DEF Spec

\* Every request names what the user typed on its line or on the line that
\* entered the mode the user saw, for all definitions that supply each mode.
THEOREM RequestsAddressed == Spec => []RequestAddressed
BY InvariantHolds, Addressed, PTL

-------------------------------------------------------------------------------
(***************************************************************************)
(* Line by line the session does what CliSessionAtomic says                 *)
(***************************************************************************)
\* From each mode up, the nearest that has the line: what it is one mode on.
NearestFrom(l, m, f) == IF Parsed[l][m] \in Commands THEN m ELSE IF Parent[m] = NoMode THEN NoMode ELSE f[Parent[m]]
Nears(l, f) == f = [m \in Modes |-> NearestFrom(l, m, f)]
Nearer(l)   == CHOOSE f : Nears(l, f)

LEMMA NearestIs ==
  ASSUME NEW l
  PROVE  Atomic!Nearest(l) = Nearer(l)
BY DEF Atomic!Nearest, Nearer, Nears, NearestFrom

\* The mode files need not be free of cycles: what has the line among the modes
\* that every set closed under going up has to have.
Climbs(l, S) == \A m \in S : (Parsed[l][m] \notin Commands /\ Parent[m] # NoMode) => Parent[m] \in S
Reached(l, m) == {o \in Modes : /\ Parsed[l][o] \in Commands
                                /\ \A S \in SUBSET Modes : (m \in S /\ Climbs(l, S)) => o \in S}
AnyReached(l, m) == IF Reached(l, m) = {} THEN NoMode ELSE CHOOSE o : o \in Reached(l, m)

LEMMA NearerExists ==
  ASSUME NEW l
  PROVE  Nears(l, Nearer(l))
<1> DEFINE f == [m \in Modes |-> AnyReached(l, m)]
<1>1. ASSUME NEW m \in Modes
      PROVE  f[m] = NearestFrom(l, m, f)
  <2>1. {m} \in SUBSET Modes /\ m \in {m}
    OBVIOUS
  <2>2. CASE Parsed[l][m] \in Commands
    <3>1. Climbs(l, {m})
      BY <2>2 DEF Climbs
    <3>2. Reached(l, m) = {m}
      BY <2>1, <2>2, <3>1 DEF Reached
    <3>3. AnyReached(l, m) = m
      BY <3>2 DEF AnyReached
    <3> QED BY <2>2, <3>3 DEF NearestFrom
  <2>3. CASE Parsed[l][m] \notin Commands /\ Parent[m] = NoMode
    <3>1. Climbs(l, {m})
      BY <2>3 DEF Climbs
    <3>2. Reached(l, m) = {}
      BY <2>1, <2>3, <3>1 DEF Reached
    <3>3. AnyReached(l, m) = NoMode
      BY <3>2 DEF AnyReached
    <3> QED BY <2>3, <3>3 DEF NearestFrom
  <2>4. CASE Parsed[l][m] \notin Commands /\ Parent[m] # NoMode
    <3> DEFINE p == Parent[m]
    <3>1. p \in Modes
      BY <2>4, ConstantTypes
    <3>2. \A S \in SUBSET Modes : (m \in S /\ Climbs(l, S)) => p \in S
      BY <2>4 DEF Climbs
    <3>3. ASSUME NEW o \in Reached(l, m)
          PROVE  o \in Reached(l, p)
      <4>1. o \in Modes /\ Parsed[l][o] \in Commands /\ o # m
        BY <2>4, <3>3 DEF Reached
      <4>2. ASSUME NEW S \in SUBSET Modes, p \in S, Climbs(l, S)
            PROVE  o \in S
        <5>1. S \cup {m} \in SUBSET Modes /\ m \in S \cup {m} /\ Climbs(l, S \cup {m})
          BY <4>2 DEF Climbs
        <5>2. o \in S \cup {m}
          BY <3>3, <5>1 DEF Reached
        <5> QED BY <4>1, <5>2
      <4> QED BY <4>1, <4>2 DEF Reached
    <3>4. Reached(l, m) = Reached(l, p)
      BY <3>2, <3>3 DEF Reached
    <3>5. AnyReached(l, m) = AnyReached(l, p)
      BY <3>4 DEF AnyReached
    <3> QED BY <2>4, <3>1, <3>5 DEF NearestFrom
  <2> QED BY <2>2, <2>3, <2>4
<1>2. f = [m \in Modes |-> f[m]]
  OBVIOUS
<1> HIDE DEF f
<1>3. Nears(l, f)
  BY <1>1, <1>2 DEF Nears
<1> QED BY <1>3 DEF Nearer

LEMMA NearestStep ==
  ASSUME NEW l, NEW m \in Modes
  PROVE  Atomic!Nearest(l)[m] = NearestFrom(l, m, Atomic!Nearest(l))
BY NearestIs, NearerExists DEF Nears

\* Going on with the search, and ending it.
LEMMA OwnerFound ==
  ASSUME NEW l \in Lines, NEW m \in Modes, Parsed[l][m] \in Commands
  PROVE  Atomic!Owner(l, m) = m /\ Atomic!Nearest(l)[m] = m
BY NearestStep, LineAssumption DEF LineAssumption, Errors, Atomic!Owner, NearestFrom

LEMMA OwnerAbove ==
  ASSUME NEW l \in Lines, NEW m \in Modes, Parsed[l][m] \notin Commands, Parent[m] # NoMode
  PROVE  /\ Parent[m] \in Modes
         /\ Parsed[l][m] = "unrecognized" => Atomic!Owner(l, m) = Atomic!Nearest(l)[Parent[m]]
         /\ Atomic!Nearest(l)[m] = Atomic!Nearest(l)[Parent[m]]
BY NearestStep, ConstantTypes DEF Atomic!Owner, NearestFrom

LEMMA OwnerNone ==
  ASSUME NEW l \in Lines, NEW m \in Modes, Parsed[l][m] \notin Commands
  PROVE  /\ Parent[m] = NoMode => Atomic!Owner(l, m) = NoMode /\ Atomic!Nearest(l)[m] = NoMode
         /\ Parsed[l][m] # "unrecognized" => Atomic!Owner(l, m) = NoMode
BY NearestStep DEF Atomic!Owner, NearestFrom

LEMMA OwnerStep == IInv /\ OwnerInv /\ [Next]_vars => OwnerInv'
<1> SUFFICES ASSUME IInv, OwnerInv, [Next]_vars PROVE OwnerInv'
  OBVIOUS
<1> USE DEF OwnerInv, Executing, Handling
<1>1. CASE ModeRead  BY <1>1 DEF ModeRead
<1>2. CASE Loaded  BY <1>2 DEF Loaded
<1>3. CASE Finish  BY <1>3 DEF Finish
<1>4. CASE EndOfInput  BY <1>4 DEF EndOfInput, IInv, Control
<1>5. CASE Parse
  <2>1. line \in Lines /\ before.mode \in Modes /\ UNCHANGED <<line, before>> /\ pc = "parse"
    BY <1>5 DEF Parse, IInv, Control
  <2>2. CASE pc' = "parseParent"
    <3>1. /\ Cmd = "unrecognized" /\ Parent[tree] # NoMode /\ tree' = Parent[tree] /\ fallback' = TRUE
      BY <1>5, <2>2 DEF Parse
    <3>2. CASE ~fallback
      <4>1. tree = before.mode /\ Parsed[line][before.mode] = "unrecognized"
        BY <2>1, <3>1, <3>2 DEF Cmd
      <4>2. Parsed[line][before.mode] \notin Commands
        BY <4>1, LineAssumption DEF LineAssumption, Errors
      <4>3. Atomic!Owner(line, before.mode) = Atomic!Nearest(line)[tree']
        BY <2>1, <3>1, <4>1, <4>2, OwnerAbove
      <4> QED BY <2>1, <2>2, <3>1, <4>1, <4>3
    <3>3. CASE fallback
      <4>1. Cmd \notin Commands /\ tree \in Modes
        BY <2>1, <3>1, LineAssumption DEF LineAssumption, Errors, IInv, Control
      <4>2. Atomic!Nearest(line)[tree] = Atomic!Nearest(line)[tree']
        BY <2>1, <3>1, <4>1, OwnerAbove DEF Cmd
      <4> QED BY <2>1, <2>2, <3>1, <3>3, <4>2
    <3> QED BY <3>2, <3>3
  <2>3. CASE pc' # "parseParent"
    BY <1>5, <2>1, <2>3 DEF Parse
  <2> QED BY <2>2, <2>3
<1>6. CASE ParseParent
  <2>1. /\ line \in Lines /\ tree \in Modes /\ UNCHANGED <<line, before, fallback>> /\ pc = "parseParent"
        /\ fallback /\ pc' # "parse"
    BY <1>6 DEF ParseParent, IInv, Control, LineInv
  <2>2. CASE tree' = tree
    BY <2>1, <2>2
  <2>3. CASE tree' # tree
    <3>1. Cmd \notin Commands /\ Parent[tree] # NoMode /\ tree' = Parent[tree]
      BY <1>6, <2>3 DEF ParseParent
    <3>2. Atomic!Nearest(line)[tree] = Atomic!Nearest(line)[tree']
      BY <2>1, <3>1, OwnerAbove DEF Cmd
    <3> QED BY <2>1, <3>1, <3>2
  <2> QED BY <2>2, <2>3
<1>7. CASE Populate  BY <1>7 DEF Populate
<1>8. CASE Skip  BY <1>8 DEF Skip
<1>9. CASE SendRequest  BY <1>9 DEF SendRequest, Dispatching
<1>10. CASE EnterMode  BY <1>10 DEF EnterMode, Dispatching
<1>11. CASE DeriveParams  BY <1>11 DEF DeriveParams
<1>12. CASE UpMode  BY <1>12 DEF UpMode, Dispatching
<1>13. CASE BuiltIn  BY <1>13 DEF BuiltIn, Dispatching
<1>14. CASE Handled  BY <1>14 DEF Handled
<1>15. CASE Restore  BY <1>15 DEF Restore
<1>16. CASE Answer  BY <1>16 DEF Answer
<1>17. ASSUME NEW l \in Lines, ReadLine(l) PROVE OwnerInv'
  BY <1>17 DEF ReadLine, IInv, Control
<1>18. CASE Close  BY <1>18 DEF Close
<1>19. CASE Interrupt  BY <1>19 DEF Interrupt
<1>20. CASE UNCHANGED vars  BY <1>20 DEF vars
<1>21. QED
  BY <1>1, <1>2, <1>3, <1>4, <1>5, <1>6, <1>7, <1>8, <1>9, <1>10, <1>11, <1>12,
     <1>13, <1>14, <1>15, <1>16, <1>17, <1>18, <1>19, <1>20 DEF Next, Program, User

\* No request inserts an empty value: what it names has been typed, or the mode
\* supplies it.
LEMMA KeysAreThere ==
  ASSUME IInv, LookupInv, pc = "dispatch", it <= Len(Actions[Cmd]), Found, Act.kind = "http"
  PROVE  \A n \in Act.keys : n \in Names /\ input[n] # Absent
<1>1. /\ line \in Lines /\ tree \in Modes /\ Cmd \in Commands
      /\ it \in DOMAIN Actions[Cmd] /\ Act \in AnyAction /\ MayRun(line, Act)
  BY FoundMayRun DEF IInv
<1>2. Act \in HttpActions
  BY <1>1 DEF AnyAction, HttpActions, NameActions, UpActions, CallActions
<1>3. SUFFICES ASSUME NEW n \in Act.keys PROVE n \in Names /\ input[n] # Absent
  OBVIOUS
<1>4. n \in Names
  BY <1>2 DEF HttpActions
<1>5. input[n] = IF n = NullName THEN NullKey
                 ELSE IF Typed[line][n] # Absent THEN Typed[line][n] ELSE before.params[n]
  BY <1>4 DEF LookupInv, Handling
<1>6. CASE n = NullName
  BY <1>4, <1>5, <1>6, NameAssumption DEF NameAssumption
<1>7. CASE n # NullName /\ Typed[line][n] # Absent
  BY <1>4, <1>5, <1>7
<1>8. CASE n # NullName /\ Typed[line][n] = Absent
  <2>1. n \in Needs[tree]
    BY <1>1, <1>4, <1>8 DEF Needs, Asks, Act, Cmd
  <2>2. before.params[n] \in Values
    BY <2>1 DEF IInv, LineInv, Supplied, Executing, Handling
  <2> QED BY <1>4, <1>5, <1>8, <2>2, NameAssumption DEF NameAssumption
<1> QED BY <1>6, <1>7, <1>8

\* The lookup goes on among the keywords only for an action with a condition.
LEMMA LookupGoesOn ==
  ASSUME IInv, LookupInv, pc \in {"dispatch", "waiting"}, it <= Len(Actions[Cmd]), NextLookup,
         UNCHANGED <<line, tree>>
  PROVE  find' = "keywords" => it' \in DOMAIN Actions'[Cmd'] /\ Act'.cond # "*"
<1>1. Cmd \in Commands
  BY DEF IInv, Control, Handling
<1>2. it \in DOMAIN Actions[Cmd]
  BY <1>1, ActionTypes DEF IInv, TypeOK
<1>3. find' = "keywords" => it' = it /\ Act.cond # "*"
  BY DEF NextLookup
<1> QED BY <1>2, <1>3 DEF Act, Cmd

LEMMA LookupStep == IInv /\ LookupInv /\ [Next]_vars => LookupInv'
<1> SUFFICES ASSUME IInv, LookupInv, [Next]_vars PROVE LookupInv'
  OBVIOUS
<1> USE DEF LookupInv, Handling
<1>1. CASE ModeRead  BY <1>1 DEF ModeRead
<1>2. CASE Loaded  BY <1>2 DEF Loaded
<1>3. CASE Finish  BY <1>3 DEF Finish
<1>4. CASE EndOfInput  BY <1>4 DEF EndOfInput
<1>5. CASE Parse  BY <1>5 DEF Parse
<1>6. CASE ParseParent  BY <1>6 DEF ParseParent
<1>7. CASE Populate
  <2>1. params = before.params /\ UNCHANGED <<line, before>> /\ find' = "params"
    BY <1>7 DEF Populate, IInv, LineInv
  <2>2. \A n \in Names : input'[n] = IF n = NullName THEN NullKey
                                     ELSE IF Typed[line][n] # Absent THEN Typed[line][n] ELSE params[n]
    BY <1>7 DEF Populate
  <2> QED BY <2>1, <2>2
<1>8. CASE Skip
  <2>1. UNCHANGED <<line, tree, input, before>> /\ pc = "dispatch"
    BY <1>8 DEF Skip
  <2>2. find' = "keywords" => it' \in DOMAIN Actions'[Cmd'] /\ Act'.cond # "*"
    BY <1>8, <2>1, LookupGoesOn DEF Skip
  <2> QED BY <2>1, <2>2
<1>9. CASE SendRequest
  <2>1. UNCHANGED <<line, tree, before>> /\ pc = "dispatch" /\ it <= Len(Actions[Cmd]) /\ Found /\ Act.kind = "http"
    BY <1>9 DEF SendRequest, Dispatching
  <2>2. \A n \in Names : input'[n] = input[n]
    BY <1>9, <2>1, KeysAreThere DEF SendRequest, WithKeys
  <2>3. find' = "keywords" => it' \in DOMAIN Actions'[Cmd'] /\ Act'.cond # "*"
    <3>1. CASE NextLookup
      BY <2>1, <3>1, LookupGoesOn
    <3>2. CASE UNCHANGED <<it, find>>
      BY <2>1, <3>2 DEF Act, Cmd
    <3> QED BY <1>9, <3>1, <3>2 DEF SendRequest
  <2> QED BY <2>1, <2>2, <2>3
<1>10. CASE EnterMode
  BY <1>10 DEF EnterMode, Dispatching, Act, Cmd
<1>11. CASE DeriveParams
  <2>1. UNCHANGED <<line, tree, input, before>> /\ pc = "derive" /\ NextLookup
    BY <1>11 DEF DeriveParams
  <2>2. it \in DOMAIN Actions[Cmd]
    BY <2>1 DEF IInv, Control
  <2>3. find' = "keywords" => it' = it /\ Act.cond # "*"
    BY <2>1 DEF NextLookup
  <2> QED BY <2>1, <2>2, <2>3 DEF Act, Cmd
<1>12. CASE UpMode
  <2>1. UNCHANGED <<line, tree, input, before>> /\ pc = "dispatch" /\ it <= Len(Actions[Cmd]) /\ NextLookup
    BY <1>12 DEF UpMode, Dispatching
  <2> QED BY <2>1, LookupGoesOn
<1>13. CASE BuiltIn
  <2>1. UNCHANGED <<line, tree, input, before>> /\ pc = "dispatch" /\ it <= Len(Actions[Cmd]) /\ NextLookup
    BY <1>13 DEF BuiltIn, Dispatching
  <2> QED BY <2>1, LookupGoesOn
<1>14. CASE Handled  BY <1>14 DEF Handled
<1>15. CASE Restore  BY <1>15 DEF Restore
<1>16. CASE Answer
  <2>1. UNCHANGED <<line, tree, input, before>> /\ pc = "waiting" /\ NextLookup
    BY <1>16 DEF Answer
  <2>2. it \in DOMAIN Actions[Cmd]
    BY <2>1 DEF IInv, Control
  <2>3. find' = "keywords" => it' = it /\ Act.cond # "*"
    BY <2>1 DEF NextLookup
  <2> QED BY <2>1, <2>2, <2>3 DEF Act, Cmd
<1>17. ASSUME NEW l \in Lines, ReadLine(l) PROVE LookupInv'
  BY <1>17 DEF ReadLine
<1>18. CASE Close  BY <1>18 DEF Close, Act, Cmd
<1>19. CASE Interrupt  BY <1>19 DEF Interrupt, Act, Cmd
<1>20. CASE UNCHANGED vars  BY <1>20 DEF vars, Act, Cmd
<1>21. QED
  BY <1>1, <1>2, <1>3, <1>4, <1>5, <1>6, <1>7, <1>8, <1>9, <1>10, <1>11, <1>12,
     <1>13, <1>14, <1>15, <1>16, <1>17, <1>18, <1>19, <1>20 DEF Next, Program, User

\* The action that changes the mode is the only one, and has no condition.
LEMMA TheMove ==
  ASSUME NEW c \in Commands, NEW i \in Atomic!Moves(c)
  PROVE  /\ (CHOOSE j \in Atomic!Moves(c) : TRUE) = i
         /\ \A j \in Atomic!Moves(c) : j = i
         /\ i \in DOMAIN Actions[c] /\ Actions[c][i].cond = "*"
         /\ \/ Actions[c][i].kind \in {"name", "up"}
            \/ Actions[c][i].kind = "call" /\ Actions[c][i].func = "exit"
<1>1. \A j \in Atomic!Moves(c) : j = i /\ Actions[c][j].cond = "*"
  BY MovesAssumption DEF MovesAssumption, Atomic!AtomicAssumption
<1>2. (CHOOSE j \in Atomic!Moves(c) : TRUE) \in Atomic!Moves(c)
  OBVIOUS
<1>3. /\ i \in DOMAIN Actions[c]
      /\ \/ Actions[c][i].kind \in {"name", "up"}
         \/ Actions[c][i].kind = "call" /\ Actions[c][i].func = "exit"
  BY DEF Atomic!Moves
<1> QED BY <1>1, <1>2, <1>3

LEMMA NoMove ==
  ASSUME NEW c, Atomic!Moves(c) = {}
  PROVE  \A m : Atomic!Destination(c, m) = m /\ ~Atomic!Ends(c, m)
BY DEF Atomic!Destination, Atomic!Ends

\* What the parameters are after a line, while it is executed.
LEMMA DerivedIs ==
  ASSUME pc \in Executing
  PROVE  Atomic!Derived(Cmd, line) =
           IF \E i \in Atomic!Moves(Cmd) : Actions[Cmd][i].kind = "name"
           THEN [n \in Names |->
                   IF n \in Actions[Cmd][CHOOSE i \in Atomic!Moves(Cmd) : TRUE].params
                   THEN IF n = NullName THEN NullKey
                        ELSE IF Typed[line][n] # Absent THEN Typed[line][n] ELSE before.params[n]
                   ELSE Absent]
           ELSE before.params
<1>1. Seen(params, before.params) = before.params
  BY DEF Seen
<1> QED BY <1>1 DEF Atomic!Derived, Atomic!Given

\* A signal leads to where End leads, and twice is once.
LEMMA EndIs ==
  ASSUME mode \in Modes
  PROVE  /\ ModeOrSame(Privileged) = Atomic!End(mode)
         /\ \A m \in Modes : Atomic!End(m) \in Modes /\ Atomic!End(Atomic!End(m)) = Atomic!End(m)
         /\ \A m \in Modes : Atomic!End(mode) = mode \/ Atomic!End(mode) = Atomic!End(m)
BY ConstantTypes DEF ModeOrSame, Atomic!End

\* An exit that no signal has torn is the one of the whole line.
LEMMA LeaveIs ==
  ASSUME exit = FALSE, ModeOrSame(Privileged) = Atomic!End(mode), ExitUndisturbed
  PROVE  exit' = (mode \in ExitToFinish) /\ mode' = Atomic!Leave(mode)
<1>1. exit' \in BOOLEAN /\ (exit' <=> mode \in ExitToFinish)
  BY DEF ExitUndisturbed
<1>2. mode' = Atomic!Leave(mode)
  <2>1. CASE mode \in ExitToFinish
    BY <2>1 DEF ExitUndisturbed, Atomic!Leave
  <2>2. CASE mode \in ExitToEnd \ ExitToFinish
    BY <2>2 DEF ExitUndisturbed, Atomic!Leave
  <2>3. CASE mode \notin ExitToFinish \cup ExitToEnd
    BY <2>3 DEF ExitUndisturbed, MoveUp, ModeUp, Atomic!Leave, Atomic!Up
  <2> QED BY <2>1, <2>2, <2>3
<1> QED BY <1>1, <1>2

\* Where the command is while its actions are handled.
LEMMA HandlingFacts ==
  ASSUME IInv, OwnerInv, pc \in Handling
  PROVE  /\ line \in Lines /\ tree \in Modes /\ Cmd \in Commands /\ mode \in Modes /\ before.mode \in Modes
         /\ it \in Nat /\ pc \in Executing
         /\ it <= Len(Actions[Cmd]) <=> it \in DOMAIN Actions[Cmd]
         /\ \A i \in Atomic!Moves(Cmd) : i \in Nat /\ i <= Len(Actions[Cmd])
<1>1. /\ line \in Lines /\ tree \in Modes /\ Cmd \in Commands /\ mode \in Modes /\ before.mode \in Modes
      /\ pc \in Executing
  BY DEF IInv, Control, OwnerInv, Executing, Handling
<1>2. it \in Nat \ {0}
  BY DEF IInv, TypeOK
<1>3. Actions[Cmd] \in Seq(AnyAction)
  BY <1>1, ActionTypes
<1>4. Len(Actions[Cmd]) \in Nat /\ DOMAIN Actions[Cmd] = 1..Len(Actions[Cmd])
  BY <1>3
<1>5. \A i \in Atomic!Moves(Cmd) : i \in DOMAIN Actions[Cmd]
  BY DEF Atomic!Moves
<1> QED BY <1>1, <1>2, <1>4, <1>5

\* A step past an action that does not change the mode.
LEMMA PassedBy ==
  ASSUME IInv, OwnerInv, EffectInv,
         pc \in {"dispatch", "waiting"}, pc' \in {"dispatch", "waiting"},
         UNCHANGED <<mode, params, exit, execVars, signalled, before>>,
         it' = it \/ (it' = it + 1 /\ it \notin Atomic!Moves(Cmd))
  PROVE  EffectInv'
<1>1. Cmd' = Cmd /\ pc \in Handling /\ pc' \in Handling /\ pc \in Executing /\ pc' \in Executing
  BY DEF Cmd, Handling, Executing
<1>2. it \in Nat /\ \A i \in Atomic!Moves(Cmd) : i \in Nat
  BY <1>1, HandlingFacts
<1>3. Moved' <=> Moved
  <2>1. Moved <=> \E i \in Atomic!Moves(Cmd) : i < it
    BY <1>1 DEF Moved
  <2>2. Moved' <=> \E i \in Atomic!Moves(Cmd) : i < it'
    BY <1>1 DEF Moved
  <2>3. \A i \in Atomic!Moves(Cmd) : i < it' <=> i < it
    BY <1>2
  <2> QED BY <2>1, <2>2, <2>3
<1>4. Unmoved' <=> Unmoved
  BY DEF Unmoved
<1>5. Atomic!Derived(Cmd, line)' = Atomic!Derived(Cmd, line)
  <2>1. Seen(params, before.params)' = Seen(params, before.params)
    BY <1>1 DEF Seen
  <2> QED BY <1>1, <2>1 DEF Atomic!Derived, Atomic!Given
<1>6. HasMoved' <=> HasMoved
  <2>1. Starts' = Starts
    BY DEF Starts
  <2>2. pc # "derive" /\ pc' # "derive"
    OBVIOUS
  <2> QED BY <1>1, <1>5, <2>1, <2>2 DEF HasMoved
<1> QED BY <1>1, <1>3, <1>4, <1>6 DEF EffectInv

\* Before the action that changes the mode has run, the line may start where it is.
LEMMA MoveStarts ==
  ASSUME IInv, OwnerInv, EffectInv, pc = "dispatch", it \in Atomic!Moves(Cmd)
  PROVE  ~exit /\ params = before.params /\ mode \in Starts
<1>1. \A i \in Atomic!Moves(Cmd) : i = it
  BY HandlingFacts, TheMove DEF Handling
<1>2. it \in Nat /\ pc \in Executing
  BY HandlingFacts DEF Handling
<1>3. ~Moved
  BY <1>1, <1>2 DEF Moved
<1> QED BY <1>2, <1>3 DEF EffectInv, Unmoved, Starts

\* When the actions are done, the one that changes the mode is, if there is one.
LEMMA AllMoved ==
  ASSUME IInv, OwnerInv, EffectInv, pc = "dispatch", it > Len(Actions[Cmd])
  PROVE  HasMoved
<1>1. /\ pc \in Executing /\ Cmd \in Commands /\ it \in Nat
      /\ \A i \in Atomic!Moves(Cmd) : i \in Nat /\ i <= Len(Actions[Cmd])
  BY HandlingFacts DEF Handling
<1>2. CASE Moved
  BY <1>1, <1>2 DEF EffectInv
<1>3. CASE ~Moved
  <2>1. Atomic!Moves(Cmd) = {}
    <3> SUFFICES ASSUME NEW i \in Atomic!Moves(Cmd) PROVE FALSE
      OBVIOUS
    <3>1. Actions[Cmd] \in Seq(AnyAction)
      BY <1>1, ActionTypes
    <3>2. Len(Actions[Cmd]) \in Nat
      BY <3>1
    <3>3. i < it
      BY <1>1, <3>2
    <3> QED BY <1>3, <3>3 DEF Moved, Handling
  <2>2. Unmoved
    BY <1>1, <1>3 DEF EffectInv
  <2>3. mode \in Starts /\ exit = FALSE /\ params = before.params
    BY <2>2 DEF Unmoved, Starts, IInv, TypeOK
  <2>4. mode = Atomic!Destination(Cmd, mode) /\ Atomic!Ends(Cmd, mode) = FALSE
    <3>1. mode = Atomic!Destination(Cmd, mode) /\ ~Atomic!Ends(Cmd, mode)
      BY <2>1, NoMove
    <3> QED BY <3>1 DEF Atomic!Ends
  <2>5. Atomic!Derived(Cmd, line) = before.params
    BY <1>1, <2>1, DerivedIs
  <2> QED BY <2>3, <2>4, <2>5 DEF HasMoved
<1> QED BY <1>2, <1>3

\* The mode actions, the built-in exit and the end of a mode's parameters have the
\* effect of the whole command.
LEMMA EnterMoves ==
  ASSUME IInv, OwnerInv, LookupInv, EffectInv, EnterMode
  PROVE  EffectInv'
<1>1. /\ pc = "dispatch" /\ it <= Len(Actions[Cmd]) /\ Act.kind = "name" /\ pc' = "derive"
      /\ mode' = ModeOrSame(Act.name) /\ UNCHANGED <<params, exit, execVars, it, signalled, before>>
  BY DEF EnterMode, Dispatching
<1>2. pc \in Handling /\ pc \in Executing /\ pc' \in Executing /\ pc' \in Handling
  BY <1>1 DEF Handling, Executing
<1>3. Cmd \in Commands /\ it \in DOMAIN Actions[Cmd] /\ mode \in Modes
  BY <1>1, <1>2, HandlingFacts
<1>4. it \in Atomic!Moves(Cmd)
  BY <1>1, <1>3 DEF Atomic!Moves, Act
<1>5. ~exit /\ params = before.params /\ mode \in Starts
  BY <1>1, <1>4, MoveStarts
<1>6. /\ (CHOOSE j \in Atomic!Moves(Cmd) : TRUE) = it
      /\ \A j \in Atomic!Moves(Cmd) : j = it
  BY <1>3, <1>4, TheMove
<1>7. Atomic!Destination(Cmd, mode) = mode'
  BY <1>1, <1>4, <1>6 DEF Atomic!Destination, ModeOrSame, Act
<1>8. Atomic!Ends(Cmd, mode) = FALSE
  BY <1>1, <1>6 DEF Atomic!Ends, Act
<1>9. Cmd' = Cmd /\ Starts' = Starts
  BY <1>1 DEF Cmd, Starts
<1>10. exit' = FALSE
  BY <1>1, <1>5 DEF IInv, TypeOK
<1>11. Moved'
  BY <1>1, <1>2, <1>4, <1>9 DEF Moved
<1>12. HasMoved'
  <2>1. /\ mode \in Starts' /\ exit' = Atomic!Ends(Cmd', mode) /\ mode' = Atomic!Destination(Cmd', mode)
        /\ params' = before'.params
    BY <1>1, <1>5, <1>7, <1>8, <1>9, <1>10
  <2> QED BY <1>1, <2>1 DEF HasMoved
<1> QED BY <1>1, <1>2, <1>11, <1>12 DEF EffectInv

LEMMA DeriveMoves ==
  ASSUME IInv, OwnerInv, LookupInv, EffectInv, DeriveParams
  PROVE  EffectInv'
<1>1. /\ pc = "derive" /\ pc' = "dispatch" /\ NextLookup
      /\ params' = [n \in Names |-> IF n \in Act.params THEN input[n] ELSE Absent]
      /\ UNCHANGED <<mode, exit, execVars, signalled, before>>
  BY DEF DeriveParams
<1>2. pc \in Handling /\ pc \in Executing /\ pc' \in Executing /\ pc' \in Handling
  BY <1>1 DEF Handling, Executing
<1>3. Cmd \in Commands /\ it \in DOMAIN Actions[Cmd] /\ it \in Nat /\ Act.kind = "name"
  BY <1>1, <1>2, HandlingFacts DEF IInv, Control
<1>4. it \in Atomic!Moves(Cmd)
  BY <1>3 DEF Atomic!Moves, Act
<1>5. /\ (CHOOSE j \in Atomic!Moves(Cmd) : TRUE) = it /\ Act.cond = "*"
  BY <1>3, <1>4, TheMove DEF Act
<1>6. it' = it + 1
  BY <1>1, <1>5 DEF NextLookup
<1>7. Cmd' = Cmd /\ Starts' = Starts /\ line' = line
  BY <1>1 DEF Cmd, Starts
<1>8. Moved /\ Moved'
  BY <1>1, <1>2, <1>3, <1>4, <1>6, <1>7 DEF Moved
<1>9. PICK start \in Starts :
        /\ exit = Atomic!Ends(Cmd, start)
        /\ \/ mode = Atomic!Destination(Cmd, start)
           \/ signalled /\ mode \in {Atomic!End(before.mode)} \cup Atomic!Torn(Cmd, start)
  BY <1>2, <1>8 DEF EffectInv, HasMoved
<1>10. Atomic!Derived(Cmd, line)' = params'
  <2>1. Atomic!Derived(Cmd, line)' = Atomic!Derived(Cmd, line)
    <3>1. Seen(params, before.params)' = Seen(params, before.params)
      BY <1>1, <1>2 DEF Seen
    <3> QED BY <1>7, <3>1 DEF Atomic!Derived, Atomic!Given
  <2>2. Atomic!Derived(Cmd, line) =
          [n \in Names |->
             IF n \in Act.params
             THEN IF n = NullName THEN NullKey
                  ELSE IF Typed[line][n] # Absent THEN Typed[line][n] ELSE before.params[n]
             ELSE Absent]
    <3>1. \E i \in Atomic!Moves(Cmd) : Actions[Cmd][i].kind = "name"
      BY <1>3, <1>4 DEF Act
    <3> QED BY <1>2, <1>5, <3>1, DerivedIs DEF Act
  <2>3. \A n \in Names : input[n] = IF n = NullName THEN NullKey
                                    ELSE IF Typed[line][n] # Absent THEN Typed[line][n] ELSE before.params[n]
    BY <1>2 DEF LookupInv
  <2> QED BY <1>1, <2>1, <2>2, <2>3
<1>11. HasMoved'
  <2>1. /\ start \in Starts' /\ exit' = Atomic!Ends(Cmd', start)
        /\ \/ mode' = Atomic!Destination(Cmd', start)
           \/ signalled' /\ mode' \in {Atomic!End(before'.mode)} \cup Atomic!Torn(Cmd', start)
    BY <1>1, <1>7, <1>9
  <2> QED BY <1>1, <1>10, <2>1 DEF HasMoved
<1> QED BY <1>1, <1>2, <1>8, <1>11 DEF EffectInv

LEMMA UpMoves ==
  ASSUME IInv, OwnerInv, LookupInv, EffectInv, pc = "dispatch", it <= Len(Actions[Cmd]),
         \/ (Act.kind = "up" /\ MoveUp /\ exit' = exit)
         \/ (Act.kind = "call" /\ Act.func = "exit" /\ CliExit),
         NextLookup, UNCHANGED <<pc, params, execVars, before>>
  PROVE  EffectInv'
<1>2. pc \in Handling /\ pc \in Executing /\ pc' \in Executing /\ pc' \in Handling
  BY DEF Handling, Executing
<1>3. Cmd \in Commands /\ it \in DOMAIN Actions[Cmd] /\ it \in Nat /\ mode \in Modes
  BY <1>2, HandlingFacts
<1>4. it \in Atomic!Moves(Cmd)
  BY <1>3 DEF Atomic!Moves, Act
<1>5. /\ (CHOOSE j \in Atomic!Moves(Cmd) : TRUE) = it /\ Act.cond = "*"
      /\ \A j \in Atomic!Moves(Cmd) : j = it
  BY <1>3, <1>4, TheMove DEF Act
<1>6. it' = it + 1
  BY <1>5 DEF NextLookup
<1>7. Cmd' = Cmd /\ Starts \subseteq Starts' /\ line' = line
  <2>1. signalled => signalled'
    BY SignalTypes DEF IInv, TypeOK
  <2> QED BY <2>1 DEF Cmd, Starts
<1>8. Moved'
  BY <1>2, <1>3, <1>4, <1>6, <1>7 DEF Moved
<1>9. ~exit /\ exit = FALSE /\ params = before.params /\ mode \in Starts
  BY <1>4, MoveStarts DEF IInv, TypeOK
<1>10. /\ exit' = Atomic!Ends(Cmd, mode)
       /\ \/ mode' = Atomic!Destination(Cmd, mode)
          \/ signalled' /\ mode' \in Atomic!Torn(Cmd, mode)
  <2> DEFINE m == Atomic!End(mode)
  <2>1. CASE Act.kind = "up" /\ MoveUp /\ exit' = exit
    <3>1. Atomic!Destination(Cmd, mode) = Atomic!Up(mode)
      BY <1>4, <1>5, <2>1 DEF Atomic!Destination, Act
    <3>2. Atomic!Ends(Cmd, mode) = FALSE
      BY <1>5, <2>1 DEF Atomic!Ends, Act
    <3> QED BY <1>9, <2>1, <3>1, <3>2 DEF Atomic!Up, ModeUp, MoveUp
  <2>2. CASE Act.kind = "call" /\ Act.func = "exit" /\ CliExit
    <3>1. Atomic!Ends(Cmd, mode) = (mode \in ExitToFinish)
      <4>1. Atomic!Ends(Cmd, mode) <=> mode \in ExitToFinish
        BY <1>4, <1>5, <2>2 DEF Atomic!Ends, Act
      <4>2. Atomic!Ends(Cmd, mode) \in BOOLEAN
        BY DEF Atomic!Ends
      <4> QED BY <4>1, <4>2
    <3>2. ModeOrSame(Privileged) = m
      BY <1>3, EndIs
    <3>3. CASE ExitUndisturbed
      <4>1. Atomic!Destination(Cmd, mode) = Atomic!Leave(mode)
        BY <1>4, <1>5, <2>2 DEF Atomic!Destination, Act
      <4>2. mode' = Atomic!Leave(mode) /\ exit' = (mode \in ExitToFinish)
        BY <1>9, <3>2, <3>3, LeaveIs
      <4> QED BY <3>1, <4>1, <4>2
    <3>4. CASE ExitTorn
      <4>1. mode \notin ExitToFinish /\ mode' = ModeUp(m) /\ signalled' /\ exit' = FALSE
        BY <1>9, <3>2, <3>4 DEF ExitTorn
      <4>2. Atomic!Up(m) \in Atomic!Torn(Cmd, mode)
        BY <1>4, <2>2, <4>1 DEF Atomic!Torn, Act
      <4>3. mode' = Atomic!Up(m)
        BY <4>1 DEF ModeUp, Atomic!Up
      <4>4. Atomic!Ends(Cmd, mode) = FALSE
        <5>1. ~Atomic!Ends(Cmd, mode)
          BY <4>1 DEF Atomic!Ends
        <5> QED BY <5>1 DEF Atomic!Ends
      <4> QED BY <4>1, <4>2, <4>3, <4>4
    <3> QED BY <2>2, <3>3, <3>4 DEF CliExit
  <2> QED BY <2>1, <2>2
<1>11. Atomic!Derived(Cmd, line)' = params'
  <2>1. Atomic!Derived(Cmd, line)' = Atomic!Derived(Cmd, line)
    <3>1. Seen(params, before.params)' = Seen(params, before.params)
      BY <1>2 DEF Seen
    <3> QED BY <1>7, <3>1 DEF Atomic!Derived, Atomic!Given
  <2>2. ~\E i \in Atomic!Moves(Cmd) : Actions[Cmd][i].kind = "name"
    BY <1>5 DEF Act
  <2>3. Atomic!Derived(Cmd, line) = before.params
    BY <1>2, <2>2, DerivedIs
  <2> QED BY <1>9, <2>1, <2>3
<1>12. HasMoved'
  <2>1. /\ mode \in Starts' /\ exit' = Atomic!Ends(Cmd', mode) /\ pc' # "derive"
        /\ \/ mode' = Atomic!Destination(Cmd', mode)
           \/ signalled' /\ mode' \in {Atomic!End(before'.mode)} \cup Atomic!Torn(Cmd', mode)
    BY <1>7, <1>9, <1>10
  <2> QED BY <1>11, <2>1 DEF HasMoved
<1> QED BY <1>2, <1>8, <1>12 DEF EffectInv

\* A signal leaves the line where it may end.
LEMMA SignalMoves ==
  ASSUME IInv, OwnerInv, EffectInv, Interrupt
  PROVE  EffectInv'
<1>1. UNCHANGED <<params, exit, execVars, it, before>>
  BY DEF Interrupt
<1>2. CASE pc \notin Executing
  <2>1. pc' \notin Executing
    BY <1>2 DEF Interrupt, Executing, Handling
  <2>2. pc' = "boot" => mode' = NoMode
    BY ConstantTypes DEF Interrupt, EffectInv
  <2> QED BY <2>1, <2>2 DEF EffectInv
<1>3. CASE pc \in Executing
  <2>1. mode \in Modes /\ before.mode \in Modes
    BY <1>3 DEF IInv, Control, OwnerInv, Executing, Handling
  <2>2. mode # NoMode /\ pc' = pc /\ mode' = Atomic!End(mode) /\ signalled' = TRUE
    BY <2>1, ConstantTypes, EndIs DEF Interrupt
  <2>3. Cmd' = Cmd /\ Starts \subseteq Starts' /\ line' = line
    BY <1>1, <2>2 DEF Cmd, Starts
  <2>4. Moved' <=> Moved
    BY <1>1, <2>2, <2>3 DEF Moved
  <2>5. ASSUME Moved PROVE HasMoved'
    <3>1. PICK start \in Starts :
            /\ exit = Atomic!Ends(Cmd, start)
            /\ \/ mode = Atomic!Destination(Cmd, start)
               \/ signalled /\ mode \in {Atomic!End(before.mode)} \cup Atomic!Torn(Cmd, start)
            /\ params = IF pc = "derive" THEN before.params ELSE Atomic!Derived(Cmd, line)
      BY <1>3, <2>5 DEF EffectInv, HasMoved
    <3>2. Atomic!Derived(Cmd, line)' = Atomic!Derived(Cmd, line)
      <4>1. Seen(params, before.params)' = Seen(params, before.params)
        BY <1>1, <2>2 DEF Seen
      <4> QED BY <2>3, <4>1 DEF Atomic!Derived, Atomic!Given
    <3>3. mode' = mode \/ mode' = Atomic!End(before.mode)
      BY <2>1, <2>2, EndIs
    <3>4. \/ mode' = Atomic!Destination(Cmd', start)
          \/ signalled' /\ mode' \in {Atomic!End(before'.mode)} \cup Atomic!Torn(Cmd', start)
      BY <1>1, <2>2, <2>3, <3>1, <3>3
    <3>5. /\ start \in Starts' /\ exit' = Atomic!Ends(Cmd', start)
          /\ params' = IF pc' = "derive" THEN before'.params ELSE Atomic!Derived(Cmd, line)'
      BY <1>1, <2>2, <2>3, <3>1, <3>2
    <3> QED BY <3>4, <3>5 DEF HasMoved
  <2>6. ASSUME ~Moved PROVE Unmoved'
    <3>1. Unmoved
      BY <1>3, <2>6 DEF EffectInv
    <3>2. mode' = Atomic!End(before.mode)
      BY <2>1, <2>2, <3>1, EndIs DEF Unmoved
    <3> QED BY <1>1, <2>2, <3>1, <3>2 DEF Unmoved
  <2>7. pc' # "boot"
    BY <1>3, <2>2 DEF Executing, Handling
  <2> QED BY <2>4, <2>5, <2>6, <2>7 DEF EffectInv
<1> QED BY <1>2, <1>3

LEMMA EffectSame ==
  ASSUME EffectInv, UNCHANGED <<pc, mode, params, exit, execVars, iterVars, signalled, before>>
  PROVE  EffectInv'
<1>1. Cmd' = Cmd /\ Starts' = Starts
  BY DEF Cmd, Starts
<1>2. Moved' <=> Moved
  BY <1>1 DEF Moved
<1>3. Unmoved' <=> Unmoved
  BY DEF Unmoved
<1>4. Atomic!Derived(Cmd, line)' = Atomic!Derived(Cmd, line)
  <2>1. Seen(params, before.params)' = Seen(params, before.params)
    BY DEF Seen
  <2> QED BY <1>1, <2>1 DEF Atomic!Derived, Atomic!Given
<1>5. HasMoved' <=> HasMoved
  BY <1>1, <1>4 DEF HasMoved
<1> QED BY <1>2, <1>3, <1>5 DEF EffectInv

LEMMA EffectStep == IInv /\ OwnerInv /\ LookupInv /\ EffectInv /\ [Next]_vars => EffectInv'
<1> SUFFICES ASSUME IInv, OwnerInv, LookupInv, EffectInv, [Next]_vars PROVE EffectInv'
  OBVIOUS
<1> USE DEF Executing, Handling
<1>1. CASE ModeRead  BY <1>1 DEF ModeRead, EffectInv
<1>2. CASE Loaded  BY <1>2 DEF Loaded, EffectInv
<1>3. CASE Finish  BY <1>3 DEF Finish, EffectInv
<1>4. CASE EndOfInput  BY <1>4 DEF EndOfInput, EffectInv
<1>5. CASE Parse
  <2>1. /\ pc = "parse" /\ pc' \in {"populate", "prompt", "parseParent"}
        /\ UNCHANGED <<mode, params, exit, signalled, before>>
    BY <1>5 DEF Parse
  <2> QED BY <2>1 DEF EffectInv, Moved, Unmoved
<1>6. CASE ParseParent
  <2>1. /\ pc = "parseParent" /\ pc' \in {"populate", "prompt", "parseParent"}
        /\ UNCHANGED <<mode, params, exit, signalled, before>>
    BY <1>6 DEF ParseParent
  <2> QED BY <2>1 DEF EffectInv, Moved, Unmoved
<1>7. CASE Populate
  <2>1. /\ pc = "populate" /\ pc' = "dispatch" /\ it' = 1
        /\ UNCHANGED <<mode, params, exit, signalled, before, line, tree>>
    BY <1>7 DEF Populate
  <2>2. Unmoved'
    BY <2>1 DEF EffectInv, Moved, Unmoved
  <2>3. ~Moved'
    <3>1. Cmd \in Commands /\ Cmd' = Cmd
      BY <2>1 DEF IInv, Control, Cmd
    <3>2. Actions[Cmd] \in Seq(AnyAction)
      BY <3>1, ActionTypes
    <3>3. DOMAIN Actions[Cmd] = 1..Len(Actions[Cmd]) /\ Len(Actions[Cmd]) \in Nat
      BY <3>2
    <3>4. \A i \in Atomic!Moves(Cmd) : i \in Nat /\ i >= 1
      BY <3>3 DEF Atomic!Moves
    <3> QED BY <2>1, <3>1, <3>4 DEF Moved
  <2> QED BY <2>1, <2>2, <2>3 DEF EffectInv
<1>8. CASE Skip
  <2>1. /\ pc = "dispatch" /\ pc' = "dispatch" /\ it <= Len(Actions[Cmd]) /\ ~Found /\ NextLookup
        /\ UNCHANGED <<mode, params, exit, execVars, signalled, before>>
    BY <1>8 DEF Skip
  <2>2. it \notin Atomic!Moves(Cmd)
    <3> SUFFICES ASSUME it \in Atomic!Moves(Cmd) PROVE FALSE
      OBVIOUS
    <3>1. Act.cond = "*"
      BY <2>1, HandlingFacts, TheMove DEF Act
    <3>2. find # "keywords"
      BY <2>1, <3>1 DEF LookupInv
    <3> QED BY <2>1, <3>1, <3>2 DEF Found
  <2> QED BY <2>1, <2>2, PassedBy DEF NextLookup
<1>9. CASE SendRequest
  <2>1. /\ pc = "dispatch" /\ pc' \in {"dispatch", "waiting"} /\ it <= Len(Actions[Cmd]) /\ Act.kind = "http"
        /\ UNCHANGED <<mode, params, exit, execVars, signalled, before>>
        /\ it' = it \/ it' = it + 1
    BY <1>9 DEF SendRequest, Dispatching, NextLookup
  <2>2. it \notin Atomic!Moves(Cmd)
    BY <2>1 DEF Atomic!Moves, Act
  <2> QED BY <2>1, <2>2, PassedBy
<1>10. CASE EnterMode  BY <1>10, EnterMoves
<1>11. CASE DeriveParams  BY <1>11, DeriveMoves
<1>12. CASE UpMode
  <2>1. /\ pc = "dispatch" /\ it <= Len(Actions[Cmd]) /\ Act.kind = "up" /\ MoveUp /\ exit' = exit
        /\ NextLookup /\ UNCHANGED <<pc, params, execVars, before>>
    BY <1>12 DEF UpMode, Dispatching
  <2> QED BY <2>1, UpMoves
<1>13. CASE BuiltIn
  <2>1. /\ pc = "dispatch" /\ it <= Len(Actions[Cmd]) /\ Act.kind = "call"
        /\ NextLookup /\ UNCHANGED <<pc, params, execVars, before>>
    BY <1>13 DEF BuiltIn, Dispatching
  <2>2. CASE Act.func = "exit" /\ CliExit
    BY <2>1, <2>2, UpMoves
  <2>3. CASE Act.func # "exit" /\ UNCHANGED <<mode, exit, signalled>>
    <3>1. it \notin Atomic!Moves(Cmd)
      BY <2>1, <2>3 DEF Atomic!Moves, Act
    <3> QED BY <2>1, <2>3, <3>1, PassedBy DEF NextLookup
  <2> QED BY <1>13, <2>2, <2>3 DEF BuiltIn
<1>14. CASE Handled
  <2>1. /\ pc = "dispatch" /\ it > Len(Actions[Cmd]) /\ pc' \in {"restore", "prompt"}
        /\ UNCHANGED <<mode, params, exit, execVars, signalled, before>>
    BY <1>14 DEF Handled
  <2>2. HasMoved
    BY <2>1, AllMoved
  <2>3. pc' = "restore" => HasMoved'
    <3>1. Cmd' = Cmd /\ Starts' = Starts /\ pc # "derive"
      BY <2>1 DEF Cmd, Starts
    <3>2. ASSUME pc' = "restore" PROVE Atomic!Derived(Cmd, line)' = Atomic!Derived(Cmd, line)
      <4>1. Seen(params, before.params)' = Seen(params, before.params)
        BY <2>1, <3>2 DEF Seen
      <4> QED BY <2>1, <3>1, <4>1 DEF Atomic!Derived, Atomic!Given
    <3> QED BY <2>1, <2>2, <3>1, <3>2 DEF HasMoved
  <2> QED BY <2>1, <2>3 DEF EffectInv, Moved
<1>15. CASE Restore  BY <1>15 DEF Restore, EffectInv
<1>16. CASE Answer
  <2>1. /\ pc = "waiting" /\ pc' = "dispatch" /\ NextLookup
        /\ UNCHANGED <<mode, params, exit, execVars, signalled, before>>
    BY <1>16 DEF Answer
  <2>2. Act.kind = "http"
    BY <2>1 DEF IInv, Control
  <2>3. it \notin Atomic!Moves(Cmd)
    BY <2>2 DEF Atomic!Moves, Act
  <2> QED BY <2>1, <2>3, PassedBy DEF NextLookup
<1>17. ASSUME NEW l \in Lines, ReadLine(l) PROVE EffectInv'
  <2>1. /\ pc' = "parse" /\ signalled' = FALSE /\ mode' = mode /\ params' = params /\ exit' = exit /\ ~exit
        /\ before'.mode = mode /\ before'.params = params
    BY <1>17 DEF ReadLine
  <2> QED BY <2>1 DEF EffectInv, Moved, Unmoved
<1>18. CASE Close
  <2>1. UNCHANGED <<pc, mode, params, exit, execVars, iterVars, signalled, before>>
    BY <1>18 DEF Close
  <2> QED BY <2>1, EffectSame
<1>19. CASE Interrupt  BY <1>19, SignalMoves
<1>20. CASE UNCHANGED vars
  <2>1. UNCHANGED <<pc, mode, params, exit, execVars, iterVars, signalled, before>>
    BY <1>20 DEF vars
  <2> QED BY <2>1, EffectSame
<1>21. QED
  BY <1>1, <1>2, <1>3, <1>4, <1>5, <1>6, <1>7, <1>8, <1>9, <1>10, <1>11, <1>12,
     <1>13, <1>14, <1>15, <1>16, <1>17, <1>18, <1>19, <1>20 DEF Next, Program, User

LEMMA AtomicInitInv == Init => AtomicInv
BY DEF Init, AtomicInv, OwnerInv, EffectInv, LookupInv, Executing, Handling

\* What the refinement needs, in every state of the session.
THEOREM AtomicInvariant == Spec => []AtomicInv
<1>1. IInv /\ AtomicInv /\ [Next]_vars => AtomicInv'
  BY OwnerStep, LookupStep, EffectStep DEF AtomicInv
<1> QED BY <1>1, AtomicInitInv, InvariantHolds, PTL DEF Spec

\* Seen from outside, a step of the session is a step of CliSessionAtomic or none.
Outside == <<Seen(mode, before.mode), Seen(params, before.params), exit /\ pc \notin Executing,
             Seen(signalled, before.signalled), IF pc \in Executing THEN line ELSE NoLine>>

LEMMA Inside ==
  ASSUME pc \in Executing, pc' \in Executing, UNCHANGED <<line, before>>
  PROVE  UNCHANGED Outside
<1>1. (exit /\ pc \notin Executing)' = (exit /\ pc \notin Executing)
  OBVIOUS
<1> QED BY <1>1 DEF Outside, Seen

LEMMA OutsideIs ==
  ASSUME IInv, pc \notin Executing
  PROVE  /\ Seen(mode, before.mode) = mode /\ Seen(params, before.params) = params
         /\ Seen(signalled, before.signalled) = signalled
         /\ (IF pc \in Executing THEN line ELSE NoLine) = NoLine
         /\ (exit /\ pc \notin Executing) = exit
<1>1. exit \in BOOLEAN
  BY DEF IInv, TypeOK
<1> QED BY <1>1 DEF Seen

LEMMA OutsideOnceMore ==
  ASSUME IInv', pc' \notin Executing
  PROVE  /\ Seen(mode, before.mode)' = mode' /\ Seen(params, before.params)' = params'
         /\ Seen(signalled, before.signalled)' = signalled'
         /\ (IF pc \in Executing THEN line ELSE NoLine)' = NoLine
         /\ (exit /\ pc \notin Executing)' = exit'
<1>1. exit' \in BOOLEAN
  BY DEF IInv, TypeOK
<1> QED BY <1>1 DEF Seen

LEMMA InsideIs ==
  ASSUME IInv, OwnerInv, EffectInv, pc \in Executing
  PROVE  /\ Seen(mode, before.mode) = before.mode /\ Seen(params, before.params) = before.params
         /\ Seen(signalled, before.signalled) = before.signalled
         /\ (IF pc \in Executing THEN line ELSE NoLine) = line
         /\ line \in Lines /\ line # NoLine /\ before.mode \in Modes /\ tree \in Modes
         /\ (exit /\ pc \notin Executing) = FALSE
BY LineAssumption DEF LineAssumption, Seen, IInv, Control, OwnerInv

LEMMA OutsideSame ==
  ASSUME UNCHANGED <<pc, mode, params, exit, line, signalled, before>>
  PROVE  UNCHANGED Outside
<1>1. (exit /\ pc \notin Executing)' = (exit /\ pc \notin Executing)
  OBVIOUS
<1> QED BY <1>1 DEF Outside, Seen

LEMMA RefusedLine ==
  ASSUME IInv, IInv', OwnerInv, EffectInv, pc \in {"parse", "parseParent"}, pc' = "prompt",
         UNCHANGED <<mode, params, exit, signalled>>,
         Atomic!Owner(line, before.mode) = NoMode
  PROVE  Atomic!Next
<1>1. pc \in Executing /\ pc' \notin Executing /\ Unmoved
  BY DEF Executing, Handling, EffectInv, Moved
<1>2. Atomic!LineOwner = NoMode
  BY <1>1, InsideIs DEF Atomic!LineOwner
<1>3. exit' = FALSE
  BY <1>1 DEF Unmoved, IInv, TypeOK
<1>4. CASE ~signalled
  <2>1. signalled' = FALSE /\ mode' = before.mode /\ params' = before.params
    BY <1>1, <1>4 DEF Unmoved, IInv, TypeOK
  <2>2. Atomic!Refused
    BY <1>1, <1>2, <1>3, <2>1, InsideIs, OutsideOnceMore DEF Atomic!Refused
  <2> QED BY <2>2 DEF Atomic!Next
<1>5. CASE signalled
  <2>1. signalled' = TRUE /\ mode' = Atomic!End(before.mode) /\ params' = before.params
    BY <1>1, <1>5 DEF Unmoved, IInv, TypeOK
  <2>2. Atomic!Disturbed
    BY <1>1, <1>2, <1>3, <2>1, InsideIs, OutsideOnceMore DEF Atomic!Disturbed
  <2> QED BY <2>2 DEF Atomic!Next
<1> QED BY <1>4, <1>5

LEMMA LineDone ==
  ASSUME IInv, IInv', OwnerInv, EffectInv, pc \in {"dispatch", "restore"}, pc' = "prompt",
         HasMoved, UNCHANGED <<params, exit, signalled>>,
         pc = "dispatch" => ~fallback /\ mode' = mode,
         pc = "restore" => mode' = tree
  PROVE  Atomic!Next
<1>1. /\ pc \in Executing /\ pc' \notin Executing /\ pc # "derive" /\ line \in Lines /\ tree \in Modes
      /\ before.mode \in Modes /\ Cmd \in Commands
  BY InsideIs DEF Executing, Handling, IInv, Control
<1>2. /\ ~fallback => tree = before.mode
      /\ fallback => tree # before.mode /\ Parsed[line][before.mode] = "unrecognized"
  BY <1>1, LineAssumption DEF LineAssumption, Errors, OwnerInv, Cmd
<1>3. Atomic!Owner(line, before.mode) = tree
  BY <1>1, <1>2, OwnerFound DEF OwnerInv, Cmd
<1>4. Atomic!LineOwner = tree /\ tree # NoMode /\ Parsed[line][tree] = Cmd
  BY <1>1, <1>3, InsideIs, ConstantTypes DEF Atomic!LineOwner, Cmd
<1>5. pc = "restore" => fallback
  BY DEF IInv, LineInv
<1>6. PICK start \in Starts :
        /\ exit = Atomic!Ends(Cmd, start)
        /\ \/ mode = Atomic!Destination(Cmd, start)
           \/ signalled /\ mode \in {Atomic!End(before.mode)} \cup Atomic!Torn(Cmd, start)
        /\ params = Atomic!Derived(Cmd, line)
  BY <1>1 DEF HasMoved
<1>7. signalled \in BOOLEAN
  BY DEF IInv, TypeOK
<1>8. /\ exit' = Atomic!Ends(Cmd, start) /\ params' = Atomic!Derived(Cmd, line)
  BY <1>6
<1>9. mode = Atomic!Destination(Cmd, start) \/ pc = "restore" => Atomic!Effect(line, start, tree)
  <2>1. pc = "dispatch" => tree = before.mode
    BY <1>2
  <2>2. pc = "restore" => tree # before.mode
    BY <1>2, <1>5
  <2>3. ASSUME mode = Atomic!Destination(Cmd, start) \/ pc = "restore"
        PROVE  mode' = IF tree = before.mode THEN Atomic!Destination(Parsed[line][tree], start) ELSE tree
    BY <1>4, <2>1, <2>2, <2>3
  <2> QED BY <1>1, <1>4, <1>8, <2>3, InsideIs, OutsideOnceMore DEF Atomic!Effect
<1>10. CASE ~signalled
  <2>1. start = before.mode /\ signalled' = FALSE
    BY <1>7, <1>10 DEF Starts
  <2>2. Atomic!Effect(line, before.mode, tree)
    BY <1>6, <1>9, <1>10, <2>1
  <2>3. Atomic!Line
    BY <1>1, <1>4, <2>1, <2>2, InsideIs, OutsideOnceMore DEF Atomic!Line
  <2> QED BY <2>3 DEF Atomic!Next
<1>11. CASE signalled
  <2>1. start \in {before.mode, Atomic!End(before.mode)} /\ signalled' = TRUE
    BY <1>7, <1>11 DEF Starts
  <2>2. \/ Atomic!Effect(line, start, tree)
        \/ /\ mode' \in {Atomic!End(before.mode)} \cup Atomic!Torn(Parsed[line][tree], start)
           /\ exit' = Atomic!Ends(Parsed[line][tree], start)
           /\ params' = Atomic!Derived(Parsed[line][tree], line)
    BY <1>4, <1>6, <1>8, <1>9
  <2>3. Atomic!Disturbed
    BY <1>1, <1>4, <2>1, <2>2, InsideIs, OutsideOnceMore DEF Atomic!Disturbed
  <2> QED BY <2>3 DEF Atomic!Next
<1> QED BY <1>10, <1>11

LEMMA RefineStep ==
  ASSUME IInv, AtomicInv, IInv', AtomicInv', [Next]_vars
  PROVE  Atomic!Next \/ UNCHANGED Outside
<1> USE DEF Executing, Handling, AtomicInv
<1>1. CASE ModeRead
  <2>1. pc \notin Executing /\ pc' \notin Executing /\ mode = NoMode /\ UNCHANGED <<params, exit, signalled>>
    BY <1>1 DEF ModeRead, EffectInv
  <2>2. CASE mode' = Startup
    <3>1. Atomic!Boot
      BY <2>1, <2>2, OutsideIs, OutsideOnceMore DEF Atomic!Boot
    <3> QED BY <3>1 DEF Atomic!Next
  <2>3. CASE mode' = mode
    BY <2>1, <2>3, OutsideIs, OutsideOnceMore DEF Outside
  <2> QED BY <1>1, <2>2, <2>3 DEF ModeRead
<1>2. CASE Loaded
  BY <1>2, OutsideIs, OutsideOnceMore DEF Outside, Loaded, cliVars, histVars
<1>3. CASE Finish
  BY <1>3, OutsideIs, OutsideOnceMore DEF Outside, Finish, cliVars, histVars
<1>4. CASE EndOfInput
  <2>1. /\ pc \notin Executing /\ pc' \notin Executing /\ ~exit /\ CliExit /\ mode \in Modes
        /\ UNCHANGED params /\ signalled \in BOOLEAN /\ exit = FALSE
    BY <1>4 DEF EndOfInput, IInv, Control, TypeOK
  <2>2. ModeOrSame(Privileged) = Atomic!End(mode)
    BY <2>1, EndIs
  <2>3. CASE ExitUndisturbed
    <3>1. exit' = (mode \in ExitToFinish) /\ mode' = Atomic!Leave(mode)
      BY <2>1, <2>2, <2>3, LeaveIs
    <3>2. signalled' \in {signalled, TRUE}
      BY <2>1, SignalTypes
    <3>3. Atomic!EndOfInput
      BY <2>1, <3>1, <3>2, OutsideIs, OutsideOnceMore DEF Atomic!EndOfInput, Atomic!Ready
    <3> QED BY <3>3 DEF Atomic!Next
  <2>4. CASE ExitTorn
    <3>1. /\ mode \notin ExitToFinish /\ exit' = FALSE /\ signalled' = TRUE
          /\ mode' = Atomic!Up(Atomic!End(mode))
      BY <2>1, <2>2, <2>4 DEF ExitTorn, ModeUp, Atomic!Up
    <3>2. Atomic!EndOfInput
      BY <2>1, <3>1, OutsideIs, OutsideOnceMore DEF Atomic!EndOfInput, Atomic!Ready
    <3> QED BY <3>2 DEF Atomic!Next
  <2> QED BY <2>1, <2>3, <2>4 DEF CliExit
<1>5. CASE Parse
  <2>1. /\ pc = "parse" /\ UNCHANGED <<line, before, mode, params, exit, signalled>>
        /\ line \in Lines /\ tree \in Modes /\ before.mode \in Modes
    BY <1>5, InsideIs DEF Parse, cliVars, histVars
  <2>2. CASE pc' = "prompt"
    <3>1. /\ Cmd \in {"incomplete", "ambiguous"} \/ (Cmd = "unrecognized" /\ Parent[tree] = NoMode)
          /\ Cmd \notin Commands
      BY <1>5, <2>2, LineAssumption DEF LineAssumption, Errors, Parse
    <3>2. ~fallback => Atomic!Owner(line, before.mode) = NoMode
      BY <2>1, <3>1, OwnerNone DEF OwnerInv, Cmd
    <3>3. ~fallback
      BY <2>1 DEF OwnerInv
    <3> QED BY <2>1, <2>2, <3>2, <3>3, RefusedLine
  <2>3. CASE pc' # "prompt"
    BY <1>5, <2>1, <2>3, Inside DEF Parse
  <2> QED BY <2>2, <2>3
<1>6. CASE ParseParent
  <2>1. /\ pc = "parseParent" /\ UNCHANGED <<line, before, mode, params, exit, signalled>> /\ fallback
        /\ line \in Lines /\ tree \in Modes /\ before.mode \in Modes
    BY <1>6, InsideIs DEF ParseParent, cliVars, histVars, IInv, LineInv
  <2>2. CASE pc' = "prompt"
    <3>1. Cmd \notin Commands /\ Parent[tree] = NoMode
      BY <1>6, <2>1, <2>2 DEF ParseParent
    <3>2. Atomic!Owner(line, before.mode) = NoMode
      BY <2>1, <3>1, OwnerNone DEF OwnerInv, Cmd
    <3> QED BY <2>1, <2>2, <3>2, RefusedLine
  <2>3. CASE pc' # "prompt"
    BY <1>6, <2>1, <2>3, Inside DEF ParseParent
  <2> QED BY <2>2, <2>3
<1>7. CASE Populate  BY <1>7, Inside DEF Populate, execVars, histVars
<1>8. CASE Skip  BY <1>8, Inside DEF Skip, execVars, histVars
<1>9. CASE SendRequest  BY <1>9, Inside DEF SendRequest, Dispatching, execVars, histVars
<1>10. CASE EnterMode  BY <1>10, Inside DEF EnterMode, Dispatching, execVars, histVars
<1>11. CASE DeriveParams  BY <1>11, Inside DEF DeriveParams, execVars
<1>12. CASE UpMode  BY <1>12, Inside DEF UpMode, Dispatching, execVars, histVars
<1>13. CASE BuiltIn  BY <1>13, Inside DEF BuiltIn, Dispatching, execVars, histVars
<1>14. CASE Handled
  <2>1. /\ pc = "dispatch" /\ it > Len(Actions[Cmd])
        /\ UNCHANGED <<mode, params, exit, line, fallback, signalled, before>>
    BY <1>14 DEF Handled, cliVars, execVars, histVars
  <2>2. CASE fallback
    BY <1>14, <2>1, <2>2, Inside DEF Handled
  <2>3. CASE ~fallback
    <3>1. pc' = "prompt"
      BY <1>14, <2>3 DEF Handled
    <3>2. HasMoved
      BY <2>1, AllMoved
    <3> QED BY <2>1, <2>3, <3>1, <3>2, LineDone
  <2> QED BY <2>2, <2>3
<1>15. CASE Restore
  <2>1. /\ pc = "restore" /\ pc' = "prompt" /\ mode' = tree /\ UNCHANGED <<params, exit, signalled>>
    BY <1>15 DEF Restore, histVars
  <2>2. HasMoved
    BY <2>1 DEF EffectInv, Moved
  <2> QED BY <2>1, <2>2, LineDone
<1>16. CASE Answer  BY <1>16, Inside DEF Answer, execVars, histVars
<1>17. ASSUME NEW l \in Lines, ReadLine(l)
       PROVE  Atomic!Next \/ UNCHANGED Outside
  <2>1. /\ pc = "prompt" /\ ~exit /\ pc' = "parse" /\ line' = l /\ mode \in Modes
        /\ before'.mode = mode /\ before'.params = params /\ before'.signalled = signalled
    BY <1>17 DEF ReadLine, IInv, Control
  <2>2. exit = FALSE
    BY <2>1 DEF IInv, TypeOK
  <2>3. /\ Seen(mode, before.mode)' = mode /\ Seen(params, before.params)' = params
        /\ Seen(signalled, before.signalled)' = signalled
        /\ (IF pc \in Executing THEN line ELSE NoLine)' = l
        /\ (exit /\ pc \notin Executing)' = FALSE
    BY <2>1 DEF Seen
  <2>4. Atomic!Read(l)
    BY <2>1, <2>2, <2>3, OutsideIs DEF Atomic!Read, Atomic!Ready
  <2> QED BY <1>17, <2>4 DEF Atomic!Next
<1>18. CASE Close
  BY <1>18, OutsideSame DEF Close, cliVars, execVars, histVars
<1>19. CASE Interrupt
  <2>1. CASE pc \in Executing
    <3>1. mode # NoMode /\ UNCHANGED <<line, before>>
      BY <1>19, <2>1, ConstantTypes DEF Interrupt, IInv, Control, execVars
    <3>2. pc' \in Executing
      BY <1>19, <2>1, <3>1 DEF Interrupt
    <3> QED BY <2>1, <3>1, <3>2, Inside
  <2>2. CASE pc \notin Executing
    <3>1. pc' \notin Executing /\ UNCHANGED <<params, exit>>
      BY <1>19, <2>2 DEF Interrupt
    <3>2. CASE mode = NoMode
      BY <1>19, <2>2, <3>1, <3>2, OutsideIs, OutsideOnceMore DEF Interrupt, Outside
    <3>3. CASE mode # NoMode
      <4>1. mode \in Modes /\ mode' = Atomic!End(mode) /\ signalled' = TRUE
        BY <1>19, <3>3, EndIs DEF Interrupt, IInv, TypeOK
      <4>2. Atomic!Signal
        BY <2>2, <3>1, <4>1, OutsideIs, OutsideOnceMore DEF Atomic!Signal
      <4> QED BY <4>2 DEF Atomic!Next
    <3> QED BY <3>2, <3>3
  <2> QED BY <2>1, <2>2
<1>20. CASE UNCHANGED vars
  BY <1>20, OutsideSame DEF vars
<1>21. QED
  BY <1>1, <1>2, <1>3, <1>4, <1>5, <1>6, <1>7, <1>8, <1>9, <1>10, <1>11, <1>12,
     <1>13, <1>14, <1>15, <1>16, <1>17, <1>18, <1>19, <1>20 DEF Next, Program, User

LEMMA RefineInit == Init => Atomic!Init
<1> SUFFICES ASSUME Init PROVE Atomic!Init
  OBVIOUS
<1>1. pc = "boot" /\ mode = NoMode /\ params = NoParams /\ exit = FALSE /\ signalled = FALSE
  BY DEF Init
<1>2. pc \notin Executing
  BY <1>1 DEF Executing, Handling
<1>3. /\ Seen(mode, before.mode) = NoMode /\ Seen(params, before.params) = NoParams
      /\ Seen(signalled, before.signalled) = FALSE /\ (exit /\ pc \notin Executing) = FALSE
      /\ (IF pc \in Executing THEN line ELSE NoLine) = NoLine
  BY <1>1, <1>2 DEF Seen
<1> QED BY <1>3 DEF Atomic!Init, NoParams

\* Whatever the interleaving of the line's steps with the answers of the server, the
\* end of the input and the signals, every line has the one effect CliSessionAtomic
\* gives it, or none, and nothing else changes what the user sees.
THEOREM LinesAreAtomic == Spec => LineAtATime
<1>1. IInv /\ IInv' /\ AtomicInv /\ AtomicInv' /\ [Next]_vars
        => Atomic!Next \/ UNCHANGED <<Seen(mode, before.mode), Seen(params, before.params),
                                      exit /\ pc \notin Executing, Seen(signalled, before.signalled),
                                      IF pc \in Executing THEN line ELSE NoLine>>
  BY RefineStep DEF Outside
<1> QED BY <1>1, RefineInit, InvariantHolds, AtomicInvariant, PTL DEF Spec, LineAtATime, Atomic!Spec, Atomic!vars
===============================================================================
