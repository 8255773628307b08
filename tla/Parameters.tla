----------------------------- MODULE Parameters -----------------------------
(***************************************************************************)
(* Parameters of statements, queries and procedures: what the program      *)
(* passes is stored in an array of Parameter, bound, read by the driver    *)
(* when it executes, and for a procedure written back to the program.      *)
(*                                                                         *)
(* The driver is bound to a value by its address and to its length or      *)
(* indicator by the address of a field of Parameter: storing another value *)
(* makes a new buffer, which the driver does not see until it is bound     *)
(* again, and changes the indicator at once.                               *)
(***************************************************************************)
EXTENDS Integers, Sequences

CONSTANTS
    MaxParams,     \* most parameters of a statement, a bound
    Arrays,        \* the arrays of values the program may pass
    Procedures,    \* the procedures there are, [in or out, SQL type] per parameter
    Careful,       \* the program stays within what the code is right for
    DriverFails    \* the driver may fail anywhere

Kinds == {"null", "bigint", "integer", "fraction", "boolean", "bytes", "string", "other"}
Directions == {"in", "inout", "out"}
SqlTypes == {"bigint", "integer", "smallint", "tinyint", "decimal", "bit", "real",
             "double", "binary", "wchar", "char"}
CTypes == {"none", "default", "sbigint", "double", "bit", "binary", "char", "wchar",
           "utinyint", "sshort", "slong"}

\* SQL_NULL_DATA and SQL_NTS. A value's length stands for its content too.
NullData == -1
NTS == -3
Cleared == 0         \* the content of a new buffer

ASSUME ValuesAssumption ==
    /\ MaxParams \in Nat
    /\ \A values \in Arrays : /\ values \in Seq([kind : Kinds, is : Nat \ {Cleared}])
                              /\ Len(values) <= MaxParams
    /\ \A proc \in Procedures : proc \in Seq([io : Directions, type : SqlTypes])
ASSUME ChoicesAssumption == Careful \in BOOLEAN /\ DriverFails \in BOOLEAN

VARIABLES
    allocated,    \* StatementData's array is not NULL
    parameters,   \* that array
    bindings,     \* what SQLBindParameter was last told, per position
    markers,      \* parameterCount: the statement's parameter markers
    passed,       \* napiParameters: the array the program passed last
    procedure,    \* what is called, <<>> for a statement or a query
    call,         \* the call under way
    relied,       \* the values the program believes are bound, a set of at most one array
    sent,         \* what the driver read when it executed
    returned      \* what the procedure gave for its parameters

vars == <<allocated, parameters, bindings, markers, passed, procedure, call, relied, sent, returned>>

Null == [kind |-> "null", is |-> 1]

\* length: BufferLength; ind: StrLen_or_IndPtr; big: isbigint.
NewParameter == [ctype |-> "none", content |-> Cleared, length |-> 0, ind |-> 0, big |-> FALSE]
NewParameters(n) == [i \in 1..n |-> NewParameter]

\* at: position of the bound indicator in the array, or 0 if that array was replaced
\* and keeps the indicator it had.
Binding == [ctype : CTypes, content : Nat, ind : Int, at : 0..MaxParams]

Init ==
    /\ allocated = FALSE /\ parameters = <<>> /\ bindings = <<>> /\ markers = 0 /\ passed = <<>> /\ procedure = <<>>
    /\ call = [op |-> "none", at |-> "idle", failed |-> FALSE]
    /\ relied = {} /\ sent = <<>> /\ returned = <<>>

-----------------------------------------------------------------------------
(* Pure parts of the code.                                                 *)

\* StoreBindValues, for one value. The fields a branch does not name are left alone.
Stored(p, v) ==
    CASE v.kind = "null"     -> [p EXCEPT !.ctype = "default", !.content = Cleared, !.ind = NullData]
      [] v.kind = "bigint"   -> [p EXCEPT !.ctype = "sbigint", !.content = v.is, !.big = TRUE]
      [] v.kind = "integer"  -> [p EXCEPT !.ctype = "sbigint", !.content = v.is, !.big = FALSE]
      [] v.kind = "fraction" -> [p EXCEPT !.ctype = "double", !.content = v.is]
      [] v.kind = "boolean"  -> [p EXCEPT !.ctype = "bit", !.content = v.is]
      [] v.kind = "bytes"    -> [p EXCEPT !.ctype = "binary", !.content = v.is, !.length = v.is,
                                          !.ind = v.is]
      [] v.kind = "string"   -> [p EXCEPT !.ctype = "char", !.content = v.is, !.length = v.is + 1,
                                          !.ind = NTS]
      [] v.kind = "other"    -> p

StoreBindValues(ps, values) == [i \in 1..Len(ps) |-> Stored(ps[i], values[i])]

\* A faulty one, that binds a position only once.
BindParametersOnce(ps, k) ==
    [i \in 1..(IF Len(bindings) > k THEN Len(bindings) ELSE k) |->
        IF i <= Len(bindings) THEN bindings[i]
        ELSE [ctype |-> ps[i].ctype, content |-> ps[i].content, ind |-> ps[i].ind, at |-> i]]

\* BindParameters up to and including position k.
BindParameters(ps, k) ==
    [i \in 1..(IF Len(bindings) > k THEN Len(bindings) ELSE k) |->
        IF i <= k THEN [ctype |-> ps[i].ctype, content |-> ps[i].content, ind |-> ps[i].ind, at |-> i]
                  ELSE bindings[i]]

\* The C types a parameter of this SQL type keeps when it is also for output; with any
\* other the value is copied to a buffer that is large enough for what may come back.
KeptCTypes(type) ==
    CASE type \in {"bigint", "integer", "smallint"} -> {"sbigint"}
      [] type \in {"decimal", "real", "double"}     -> {"double", "sbigint"}
      [] type = "tinyint"                           -> CTypes
      [] type \in {"bit", "binary", "wchar", "char"} -> {}

\* BufferLength bytes are copied: none of a number or a boolean, whose length was
\* never set. Of a tinyint one byte may come back.
ForInOut(p, type) ==
    IF p.ctype \in KeptCTypes(type)
      THEN [p EXCEPT !.length = IF type = "tinyint" THEN 1 ELSE 8]
      ELSE [p EXCEPT !.content = IF p.length > 0 THEN @ ELSE Cleared, !.length = 100]

\* The C type of an output parameter.
OutCType(type) ==
    CASE type = "decimal"  -> "char"
      [] type = "double"   -> "double"
      [] type = "tinyint"  -> "utinyint"
      [] type = "smallint" -> "sshort"
      [] type = "integer"  -> "slong"
      [] type = "bigint"   -> "sbigint"
      [] type = "binary"   -> "binary"
      [] type = "wchar"    -> "wchar"
      [] OTHER             -> "char"

ForOut(p, type) ==
    [p EXCEPT !.ctype = OutCType(type), !.content = Cleared, !.length = 100,
              !.big = IF type = "bigint" THEN TRUE ELSE @]

\* The parameters as SQLProcedureColumns describes them.
ForProcedure(ps, proc) ==
    [i \in 1..Len(ps) |-> CASE proc[i].io = "in"    -> ps[i]
                            [] proc[i].io = "inout" -> ForInOut(ps[i], proc[i].type)
                            [] proc[i].io = "out"   -> ForOut(ps[i], proc[i].type)]

\* A faulty one, that forgets that input parameters may be output too.
OverwrittenOut(i) == procedure # <<>> /\ procedure[i].io = "out"

\* overwriteParams.
Overwritten(i) == procedure # <<>> /\ procedure[i].io # "in"

\* ParametersToArray, for one parameter: a JavaScript value by the C type that was
\* bound. C types it does not know, and text that had no room, make no sense.
Garbled == [kind |-> "other", is |-> 1]
ToValue(p) ==
    IF p.ind = NullData THEN Null
    ELSE CASE p.ctype = "sbigint"             -> [kind |-> IF p.big THEN "bigint" ELSE "integer", is |-> p.content]
           [] p.ctype \in {"slong", "sshort"} -> [kind |-> "integer", is |-> p.content]
           [] p.ctype = "double"              -> [kind |-> "fraction", is |-> p.content]
           [] p.ctype = "binary"              -> [kind |-> "bytes", is |-> p.content]
           [] p.ctype = "wchar"               -> [kind |-> "string", is |-> p.content]
           [] p.ctype = "char" /\ p.length > p.content -> [kind |-> "string", is |-> p.content]
           [] OTHER                           -> Garbled

ParametersToArray ==
    [i \in 1..Len(passed) |-> IF Overwritten(i) THEN ToValue(parameters[i]) ELSE passed[i]]

-----------------------------------------------------------------------------
(* The driver.                                                             *)

\* What it reads where b says and the indicator is ind: fixed C types look at the
\* indicator for null only.
ReadAt(b, ind) ==
    IF ind = NullData THEN [ctype |-> "default", content |-> Cleared, length |-> NullData]
    ELSE [ctype |-> b.ctype, content |-> b.content,
          length |-> IF b.ctype \in {"binary", "char"} THEN ind ELSE 0]

Read(b) == ReadAt(b, IF b.at = 0 THEN b.ind ELSE parameters[b.at].ind)

\* What it ought to read for a value.
Native(v) ==
    CASE v.kind = "null"     -> [ctype |-> "default", content |-> Cleared, length |-> NullData]
      [] v.kind \in {"bigint", "integer"} -> [ctype |-> "sbigint", content |-> v.is, length |-> 0]
      [] v.kind = "fraction" -> [ctype |-> "double", content |-> v.is, length |-> 0]
      [] v.kind = "boolean"  -> [ctype |-> "bit", content |-> v.is, length |-> 0]
      [] v.kind = "bytes"    -> [ctype |-> "binary", content |-> v.is, length |-> v.is]
      [] v.kind = "string"   -> [ctype |-> "char", content |-> v.is, length |-> NTS]
      [] v.kind = "other"    -> [ctype |-> "none", content |-> Cleared, length |-> 0]

\* What a procedure may give for one of its parameters.
Given == {NullData, 2}
Written(p, g) ==
    IF g = NullData THEN [p EXCEPT !.ind = NullData]
    ELSE [p EXCEPT !.content = g, !.ind = g]

-----------------------------------------------------------------------------
(* What the program calls. It awaits its calls.                            *)

IdleNow == call.at = "idle"
Begin(op) == IdleNow /\ call' = [op |-> op, at |-> "queued", failed |-> FALSE]
Refused(op) == IdleNow /\ call' = [op |-> op, at |-> "done", failed |-> TRUE]

\* Statement.prepare().
CallPrepare ==
    /\ Begin("prepare")
    /\ procedure = <<>>
    /\ passed' = <<>>
    /\ relied' = {}
    /\ UNCHANGED <<allocated, parameters, bindings, markers, procedure, sent, returned>>

\* With numbers and booleans the code does not reset what a null left in the
\* indicator, and a value of another type is passed over.
Handled(v, p) == v.kind # "other" /\ (p.ind = NullData => v.kind \in {"null", "bytes", "string"})

\* Statement.bind(). The array is kept even if it does not fit.
CallBind(values) ==
    /\ procedure = <<>>
    /\ passed' = values
    /\ IF Len(values) # markers \/ ~allocated
         THEN Refused("bind") /\ UNCHANGED parameters
         ELSE /\ Begin("bind")
              /\ Careful => \A i \in 1..Len(values) : Handled(values[i], parameters[i])
              /\ parameters' = StoreBindValues(parameters, values)
    /\ relied' = {}
    /\ UNCHANGED <<allocated, bindings, markers, procedure, sent, returned>>

\* Statement.execute(), whatever became of the last bind() or prepare().
CallExecute ==
    /\ procedure = <<>>
    /\ Begin("execute")
    /\ UNCHANGED <<allocated, parameters, bindings, markers, passed, procedure, relied, sent, returned>>

\* The INOUT and OUT parameters the code gets right. For one that is only given back
\* any value will do, undefined too.
HandledHere(v, d) ==
    /\ v.kind = "other" => d.io = "out"
    /\ d.io = "inout" => CASE d.type \in {"bigint", "integer", "smallint"} -> v.kind \in {"bigint", "integer", "string"}
                           [] d.type \in {"decimal", "real", "double"} -> v.kind \in {"bigint", "integer", "fraction", "string"}
                           [] d.type = "tinyint" -> v.kind \in {"bigint", "integer", "fraction"}
                           [] d.type = "binary" -> v.kind = "bytes"
                           [] OTHER -> v.kind = "string"
    /\ d.io = "out" => d.type # "tinyint"

\* Connection.query() with parameters, and Connection.callProcedure(): with data of
\* their own.
CallOnce(op, values, proc) ==
    /\ Begin(op)
    /\ ~allocated /\ bindings = <<>>       \* no statement in use, a bound
    /\ Careful => \A i \in 1..Len(values) :
                     IF i <= Len(proc) THEN HandledHere(values[i], proc[i]) ELSE values[i].kind # "other"
    /\ parameters' = StoreBindValues(NewParameters(Len(values)), values)
    /\ passed' = values
    /\ procedure' = proc
    /\ relied' = {values}
    /\ UNCHANGED <<allocated, bindings, markers, sent, returned>>

-----------------------------------------------------------------------------
(* The workers and their answers.                                          *)

Ends(failed) == call' = [call EXCEPT !.at = "done", !.failed = failed]
Runs(op) == call.op = op /\ call.at = "queued"

\* An array that is replaced keeps the indicators the driver is still bound to.
Detached == [i \in 1..Len(bindings) |->
    IF bindings[i].at = 0 THEN bindings[i]
    ELSE [bindings[i] EXCEPT !.ind = parameters[bindings[i].at].ind, !.at = 0]]

\* A faulty one, that makes the array of parameters once.
PrepareRunsOnce ==
    /\ Runs("prepare")
    /\ \E n \in 0..MaxParams :
          /\ markers' = n
          /\ allocated' = TRUE
          /\ parameters' = IF allocated THEN parameters ELSE NewParameters(n)
    /\ Ends(FALSE)
    /\ UNCHANGED <<bindings, passed, procedure, relied, sent, returned>>

\* PrepareAsyncWorker: SQLPrepare, SQLNumParams and a new array.
PrepareRuns ==
    /\ Runs("prepare")
    /\ \/ /\ \E n \in 0..MaxParams :
                /\ markers' = n
                /\ allocated' = TRUE
                /\ parameters' = NewParameters(n)
          /\ bindings' = Detached
          /\ Ends(FALSE)
       \/ /\ DriverFails
          /\ Ends(TRUE)
          /\ UNCHANGED <<allocated, parameters, bindings, markers>>
    /\ UNCHANGED <<passed, procedure, relied, sent, returned>>

\* BindAsyncWorker: an error leaves what was bound before it.
BindRuns ==
    /\ Runs("bind")
    /\ \E k \in IF DriverFails THEN 0..markers ELSE {markers} :
          /\ bindings' = BindParameters(parameters, k)
          /\ IF k < markers THEN Ends(TRUE) /\ UNCHANGED relied
                            ELSE Ends(FALSE) /\ relied' = {passed}
    /\ UNCHANGED <<allocated, parameters, markers, passed, procedure, sent, returned>>

\* A driver refuses to execute with markers that are not bound.
Unbound == ~allocated \/ Len(bindings) < markers

Fails ==
    /\ DriverFails \/ call.op # "execute" \/ Unbound
    /\ call.at = "queued" /\ call.op \in {"execute", "query", "procedure"}
    /\ Ends(TRUE)
    /\ UNCHANGED <<allocated, parameters, bindings, markers, passed, procedure, relied, sent, returned>>

\* ExecuteAsyncWorker.
ExecuteRuns ==
    /\ Runs("execute")
    /\ ~Unbound
    /\ sent' = [i \in 1..markers |-> Read(bindings[i])]
    /\ Ends(FALSE)
    /\ UNCHANGED <<allocated, parameters, bindings, markers, passed, procedure, relied, returned>>

\* QueryAsyncWorker and CallProcedureAsyncWorker, where the number of parameters is
\* what it should be.
OnceRuns ==
    /\ call.op \in {"query", "procedure"} /\ call.at = "queued"
    /\ LET ps == IF call.op = "query" THEN parameters ELSE ForProcedure(parameters, procedure) IN
       /\ call.op = "procedure" => Len(procedure) = Len(parameters)
       /\ \E given \in [1..Len(ps) -> Given] :
             /\ call.op = "query" => given = [i \in 1..Len(ps) |-> 2]
             /\ parameters' = [i \in 1..Len(ps) |-> IF Overwritten(i) THEN Written(ps[i], given[i]) ELSE ps[i]]
             /\ returned' = given
       /\ sent' = [i \in 1..Len(ps) |-> ReadAt(ps[i], ps[i].ind)]
    /\ Ends(FALSE)
    /\ UNCHANGED <<allocated, bindings, markers, passed, procedure, relied>>

\* OnOK and OnError, which is where ParametersToArray is called. The data of a query
\* or a procedure is deleted.
Answer ==
    /\ call.at = "done"
    /\ call' = [call EXCEPT !.at = "idle"]
    /\ sent' = <<>> /\ returned' = <<>> /\ procedure' = <<>>
    /\ IF call.op \in {"query", "procedure"} THEN parameters' = <<>> /\ passed' = <<>> /\ relied' = {}
                                            ELSE UNCHANGED <<parameters, passed, relied>>
    /\ UNCHANGED <<allocated, bindings, markers>>

Next ==
    \/ CallPrepare \/ CallExecute
    \/ \E values \in Arrays : \/ CallBind(values) \/ CallOnce("query", values, <<>>)
                              \/ \E proc \in Procedures : CallOnce("procedure", values, proc)
    \/ PrepareRuns \/ BindRuns \/ ExecuteRuns \/ OnceRuns \/ Fails
    \/ Answer

Spec == Init /\ [][Next]_vars

-----------------------------------------------------------------------------
(* Properties.                                                             *)

ParameterType == [ctype : CTypes, content : Nat, length : Nat, ind : Int, big : BOOLEAN]
Calling == [op : {"none", "prepare", "bind", "execute", "query", "procedure"},
            at : {"idle", "queued", "done"}, failed : BOOLEAN]

\* Type correctness. A prepared statement has a Parameter for each of its markers.
TypeOK ==
    /\ allocated \in BOOLEAN /\ markers \in 0..MaxParams
    /\ parameters \in Seq(ParameterType) /\ (allocated => Len(parameters) = markers)
    /\ bindings \in Seq(Binding) /\ Len(bindings) <= MaxParams
    /\ passed \in Arrays \cup {<<>>}
    /\ procedure \in Procedures \cup {<<>>}
    /\ call \in Calling
    /\ relied \subseteq Arrays
    /\ sent \in Seq([ctype : CTypes, content : Nat, length : Int])
    /\ returned \in Seq(Given)

Succeeded == call.at = "done" /\ ~call.failed /\ call.op \in {"execute", "query", "procedure"}
IsInput(i) == procedure = <<>> \/ procedure[i].io # "out"
IsOutput(i) == procedure # <<>> /\ procedure[i].io # "in"

\* What the driver reads when it executes is what the program bound last, or passed
\* to the query or procedure: of the right type, the right value, and null only for
\* null, whatever was bound to the same parameters before and whatever failed in
\* between (odbc.cpp 700-755, 792-821; odbc_connection.cpp 1400-1740).
SentAsBound ==
    Succeeded => \A values \in relied : \A i \in 1..Len(values) :
                    IsInput(i) => sent[i] = Native(values[i])

\* README.md 148: the result's "parameters" are the parameters passed, and for input
\* and output and for output parameters what the procedure gave.
ResultParametersTrue ==
    Succeeded => \A values \in relied : \A i \in 1..Len(values) :
        LET reported == ParametersToArray[i] IN
        CASE ~IsOutput(i)                            -> reported = values[i]
          [] IsOutput(i) /\ returned[i] = NullData   -> reported = Null
          [] IsOutput(i) /\ returned[i] # NullData   -> /\ reported.kind \notin {"null", "other"}
                                                         /\ reported.is = returned[i]
=============================================================================
