-------------------------- MODULE ParameterProofs --------------------------
(***************************************************************************)
(* Proofs about module Parameters, for any arrays, any procedures, any     *)
(* number of parameters and a driver that may fail anywhere: what a step   *)
(* stores, binds or copies reads as the value it stands for.               *)
(***************************************************************************)
EXTENDS Parameters, TLAPS

Values == [kind : Kinds, is : Nat \ {Cleared}]

\* A query or a procedure call is under way, with data of its own.
Once == call.op \in {"query", "procedure"} /\ call.at # "idle"

\* A position that is bound to the array is bound to its own parameter there.
BoundInv == \A i \in 1..Len(bindings) :
    bindings[i].at # 0 => allocated /\ bindings[i].at = i /\ i <= markers

\* Which data a call works on.
CallInv ==
    /\ Once => /\ ~allocated
               /\ passed \in Arrays
               /\ relied = {passed}
               /\ Len(parameters) = Len(passed)
    /\ procedure # <<>> => call.op = "procedure" /\ Once
    /\ Runs("bind") => allocated /\ passed \in Arrays /\ Len(passed) = markers
    /\ Runs("bind") \/ Runs("prepare") => relied = {}

\* A value and its parameter, as the workers of a query and of a procedure expect them.
HandledAt(i) == IF i <= Len(procedure) THEN HandledHere(passed[i], procedure[i])
                                       ELSE passed[i].kind # "other"

\* What is stored, and what the program relies on, reads as the values passed.
ValuesInv ==
    /\ Runs("bind") =>
         \A i \in 1..markers : ReadAt(parameters[i], parameters[i].ind) = Native(passed[i])
    /\ ~Once /\ relied # {} =>
         /\ relied = {passed} /\ allocated
         /\ Len(passed) = markers /\ markers <= Len(bindings)
         /\ \A i \in 1..markers : bindings[i].at = i /\ Read(bindings[i]) = Native(passed[i])
    /\ Once /\ call.at = "queued" =>
         /\ parameters = StoreBindValues(NewParameters(Len(passed)), passed)
         /\ \A i \in 1..Len(passed) : HandledAt(i)

TInv == TypeOK /\ BoundInv /\ CallInv

-----------------------------------------------------------------------------
(* What the pure parts do to one parameter.                                *)

\* Storing a value leaves a parameter a parameter.
LEMMA StoredType ==
  ASSUME NEW p \in ParameterType, NEW v \in Values
  PROVE  Stored(p, v) \in ParameterType
<1>1. v.kind \in Kinds /\ v.is \in Nat
  BY DEF Values
<1>2. CASE v.kind \in {"null", "bytes", "string"}
  <2>1. /\ v.is + 1 \in Nat /\ v.is \in Int /\ NullData \in Int /\ NTS \in Int /\ Cleared \in Nat
        /\ {"default", "binary", "char"} \subseteq CTypes
    BY <1>1 DEF NullData, NTS, Cleared, CTypes
  <2> QED
    BY <1>1, <1>2, <2>1 DEF Stored, ParameterType
<1>3. CASE v.kind \in {"bigint", "integer", "fraction", "boolean", "other"}
  BY <1>1, <1>3 DEF Stored, ParameterType, CTypes
<1> QED
  BY <1>1, <1>2, <1>3 DEF Kinds

\* What is stored for a value reads as that value, except where the code leaves the
\* null of an earlier one behind.
LEMMA StoredReads ==
  ASSUME NEW p \in ParameterType, NEW v \in Values, Handled(v, p)
  PROVE  ReadAt(Stored(p, v), Stored(p, v).ind) = Native(v)
<1>1. /\ p.ind \in Int /\ v.is \in Nat /\ v.kind \in Kinds
      /\ v.kind # "other"
  BY DEF ParameterType, Values, Handled
<1>2. p.ind = NullData => v.kind \in {"null", "bytes", "string"}
  BY DEF Handled
<1>3. CASE v.kind = "null"
  BY <1>3 DEF Stored, ReadAt, Native, ParameterType, Cleared
<1>4. CASE v.kind \in {"bigint", "integer", "fraction", "boolean"}
  BY <1>1, <1>2, <1>4 DEF Stored, ReadAt, Native, ParameterType
<1>5. CASE v.kind \in {"bytes", "string"}
  BY <1>1, <1>5 DEF Stored, ReadAt, Native, ParameterType, NullData, NTS
<1> QED
  BY <1>1, <1>3, <1>4, <1>5 DEF Kinds

\* A new parameter is one, and has no null behind its indicator.
LEMMA NewIsHandled ==
  /\ NewParameter \in ParameterType
  /\ \A v \in Values : v.kind # "other" => Handled(v, NewParameter)
BY DEF NewParameter, ParameterType, Handled, CTypes, Cleared, NullData

\* So is one that is prepared for output.
LEMMA OutputTypes ==
  ASSUME NEW p \in ParameterType, NEW type \in SqlTypes
  PROVE  ForInOut(p, type) \in ParameterType /\ ForOut(p, type) \in ParameterType
<1>1. ForInOut(p, type) \in ParameterType
  BY DEF ForInOut, ParameterType, Cleared
<1>2. OutCType(type) \in CTypes
  BY DEF OutCType, CTypes
<1>3. ForOut(p, type) \in ParameterType
  BY <1>2 DEF ForOut, ParameterType, Cleared
<1> QED
  BY <1>1, <1>3

\* And one that the procedure has written to.
LEMMA WrittenType ==
  ASSUME NEW p \in ParameterType, NEW g \in Given
  PROVE  Written(p, g) \in ParameterType
<1>1. CASE g = NullData
  BY <1>1 DEF Written, ParameterType, NullData
<1>2. CASE g = 2
  <2>1. Written(p, g) = [p EXCEPT !.content = 2, !.ind = 2]
    BY <1>2 DEF Written, NullData
  <2>2. 2 \in Nat /\ 2 \in Int
    OBVIOUS
  <2> QED
    BY <2>1, <2>2 DEF ParameterType
<1> QED
  BY <1>1, <1>2 DEF Given

\* What an input and output parameter is given to keep.
LEMMA NewStored ==
  ASSUME NEW v \in Values, NEW d \in [io : {"inout"}, type : SqlTypes], HandledHere(v, d)
  PROVE  LET p == Stored(NewParameter, v) IN
           /\ p.ctype \in KeptCTypes(d.type) \/ (p.ctype \in {"char", "binary"} /\ p.length > 0)
           /\ p.ctype \in {"sbigint", "double", "char", "binary"}
<1> DEFINE p == Stored(NewParameter, v)
<1>1. v.kind \in Kinds /\ v.is \in Nat \ {0} /\ d.type \in SqlTypes /\ d.io = "inout"
  BY DEF Values, Cleared
<1>2. CASE d.type \in {"bigint", "integer", "smallint"}
  <2>1. v.kind \in {"bigint", "integer", "string"}
    BY <1>1, <1>2 DEF HandledHere
  <2> QED
    BY <1>1, <1>2, <2>1 DEF Stored, NewParameter, KeptCTypes
<1>3. CASE d.type \in {"decimal", "real", "double"}
  <2>1. v.kind \in {"bigint", "integer", "fraction", "string"}
    BY <1>1, <1>3 DEF HandledHere
  <2> QED
    BY <1>1, <1>3, <2>1 DEF Stored, NewParameter, KeptCTypes
<1>4. CASE d.type = "tinyint"
  <2>1. v.kind \in {"bigint", "integer", "fraction"}
    BY <1>1, <1>4 DEF HandledHere
  <2> QED
    BY <1>1, <1>4, <2>1 DEF Stored, NewParameter, KeptCTypes, CTypes
<1>5. CASE d.type = "binary"
  <2>1. v.kind = "bytes"
    BY <1>1, <1>5 DEF HandledHere
  <2>2. p.ctype = "binary" /\ p.length = v.is
    BY <2>1 DEF Stored, NewParameter
  <2> QED
    BY <1>1, <2>2
<1>6. CASE d.type \in {"bit", "wchar", "char"}
  <2>1. v.kind = "string"
    BY <1>1, <1>6 DEF HandledHere
  <2>2. p.ctype = "char" /\ p.length = v.is + 1
    BY <2>1 DEF Stored, NewParameter
  <2> QED
    BY <1>1, <2>2
<1> QED
  BY <1>1, <1>2, <1>3, <1>4, <1>5, <1>6 DEF SqlTypes

\* Copied to a larger buffer or not, it reads as the value that was passed.
LEMMA InOutReads ==
  ASSUME NEW v \in Values, NEW d \in [io : {"inout"}, type : SqlTypes], HandledHere(v, d)
  PROVE  LET p == ForInOut(Stored(NewParameter, v), d.type) IN ReadAt(p, p.ind) = Native(v)
<1> DEFINE p == Stored(NewParameter, v)
<1>1. p \in ParameterType
  BY NewIsHandled, StoredType
<1>2. ReadAt(p, p.ind) = Native(v)
  BY NewIsHandled, StoredReads DEF HandledHere
<1>3. p.ctype \in KeptCTypes(d.type) \/ p.length > 0
  BY NewStored
<1> HIDE DEF p
<1>4. /\ ForInOut(p, d.type).ind = p.ind
      /\ ForInOut(p, d.type).ctype = p.ctype
      /\ ForInOut(p, d.type).content = p.content
  BY <1>1, <1>3 DEF ForInOut, ParameterType
<1>5. ReadAt(ForInOut(p, d.type), ForInOut(p, d.type).ind) = ReadAt(p, p.ind)
  BY <1>4 DEF ReadAt
<1> QED
  BY <1>2, <1>5 DEF p

\* What the procedure gave is what the program is told.
TellsGiven(p, g) ==
    LET told == ToValue(Written(p, g)) IN
    /\ g = NullData => told = Null
    /\ g # NullData => told.kind \notin {"null", "other"} /\ told.is = g

\* True of the C types that ParametersToArray knows, if there is room for text.
LEMMA KnownTells ==
  ASSUME NEW p \in ParameterType, NEW g \in Given,
         p.ctype \in {"sbigint", "slong", "sshort", "double", "binary", "wchar", "char"},
         p.ctype = "char" => p.length = 100
  PROVE  TellsGiven(p, g)
<1>1. CASE g = NullData
  BY <1>1 DEF TellsGiven, ToValue, Written, ParameterType
<1>2. CASE g = 2
  <2>1. /\ Written(p, g).ind = 2 /\ Written(p, g).ctype = p.ctype
        /\ Written(p, g).content = 2 /\ Written(p, g).length = p.length
    BY <1>2 DEF Written, ParameterType, NullData
  <2> QED
    BY <1>2, <2>1 DEF TellsGiven, ToValue, NullData
<1> QED
  BY <1>1, <1>2 DEF Given

LEMMA InOutTells ==
  ASSUME NEW v \in Values, NEW d \in [io : {"inout"}, type : SqlTypes], HandledHere(v, d),
         NEW g \in Given
  PROVE  TellsGiven(ForInOut(Stored(NewParameter, v), d.type), g)
<1> DEFINE p == Stored(NewParameter, v)
<1>1. p \in ParameterType
  BY NewIsHandled, StoredType
<1>2. p.ctype \in {"sbigint", "double", "char", "binary"}
  BY NewStored
<1>3. p.ctype = "char" => p.ctype \notin KeptCTypes(d.type)
  <2>1. d.type = "tinyint" => v.kind \in {"bigint", "integer", "fraction"}
    BY DEF HandledHere
  <2>2. d.type = "tinyint" => p.ctype # "char"
    BY <2>1 DEF Stored, NewParameter
  <2> QED
    BY <2>2 DEF KeptCTypes, SqlTypes
<1> HIDE DEF p
<1>4. /\ ForInOut(p, d.type).ctype = p.ctype
      /\ p.ctype = "char" => ForInOut(p, d.type).length = 100
  BY <1>1, <1>3 DEF ForInOut, ParameterType
<1> QED
  BY <1>1, <1>2, <1>4, OutputTypes, KnownTells DEF p

LEMMA OutTells ==
  ASSUME NEW p \in ParameterType, NEW type \in SqlTypes \ {"tinyint"}, NEW g \in Given
  PROVE  TellsGiven(ForOut(p, type), g)
<1>1. OutCType(type) \in {"sbigint", "slong", "sshort", "double", "binary", "wchar", "char"}
  BY DEF OutCType, SqlTypes
<1>2. ForOut(p, type).ctype = OutCType(type) /\ ForOut(p, type).length = 100
  BY DEF ForOut, ParameterType
<1> QED
  BY <1>1, <1>2, OutputTypes, KnownTells

-----------------------------------------------------------------------------
(* What the pure parts do to the arrays.                                   *)

LEMMA ArraysType ==
  ASSUME NEW values \in Arrays
  PROVE  /\ values \in Seq(Values)
         /\ Len(values) \in 0..MaxParams
         /\ \A i \in 1..Len(values) : values[i] \in Values
<1>1. values \in Seq(Values) /\ Len(values) <= MaxParams /\ MaxParams \in Nat
  BY ValuesAssumption DEF Values
<1> QED
  BY <1>1

LEMMA ProceduresType ==
  ASSUME NEW proc \in Procedures
  PROVE  /\ Len(proc) \in Nat
         /\ \A i \in 1..Len(proc) : proc[i] \in [io : Directions, type : SqlTypes]
<1> DEFINE D == [io : Directions, type : SqlTypes]
<1>1. proc \in Seq(D)
  BY ValuesAssumption
<1> HIDE DEF D
<1>2. Len(proc) \in Nat /\ \A i \in 1..Len(proc) : proc[i] \in D
  BY <1>1
<1> QED
  BY <1>2 DEF D

LEMMA StoreType ==
  ASSUME NEW ps \in Seq(ParameterType), NEW values \in Arrays, Len(values) = Len(ps)
  PROVE  /\ StoreBindValues(ps, values) \in Seq(ParameterType)
         /\ Len(StoreBindValues(ps, values)) = Len(ps)
         /\ \A i \in 1..Len(ps) : StoreBindValues(ps, values)[i] = Stored(ps[i], values[i])
<1>1. Len(ps) \in Nat /\ \A i \in 1..Len(ps) : ps[i] \in ParameterType /\ values[i] \in Values
  BY ArraysType
<1>2. \A i \in 1..Len(ps) : Stored(ps[i], values[i]) \in ParameterType
  BY <1>1, StoredType
<1> QED
  BY <1>1, <1>2 DEF StoreBindValues

LEMMA NewType ==
  ASSUME NEW n \in Nat
  PROVE  /\ NewParameters(n) \in Seq(ParameterType)
         /\ Len(NewParameters(n)) = n
         /\ \A i \in 1..n : NewParameters(n)[i] = NewParameter
BY NewIsHandled DEF NewParameters

LEMMA ForProcedureType ==
  ASSUME NEW ps \in Seq(ParameterType), NEW proc \in Procedures, Len(proc) = Len(ps)
  PROVE  /\ ForProcedure(ps, proc) \in Seq(ParameterType)
         /\ Len(ForProcedure(ps, proc)) = Len(ps)
<1>1. /\ Len(ps) \in Nat /\ \A i \in 1..Len(ps) : ps[i] \in ParameterType
      /\ \A i \in 1..Len(ps) : proc[i].io \in Directions /\ proc[i].type \in SqlTypes
  BY ProceduresType
<1>2. \A i \in 1..Len(ps) : /\ ForInOut(ps[i], proc[i].type) \in ParameterType
                            /\ ForOut(ps[i], proc[i].type) \in ParameterType
  BY <1>1, OutputTypes
<1> QED
  BY <1>1, <1>2 DEF ForProcedure, Directions

\* Binding the first k parameters binds these to the array and leaves the others.
LEMMA BindType ==
  ASSUME TypeOK, BoundInv, allocated, NEW k \in 0..markers
  PROVE  LET bound == BindParameters(parameters, k) IN
           /\ bound \in Seq(Binding)
           /\ Len(bound) \in 0..MaxParams /\ k <= Len(bound)
           /\ \A i \in 1..Len(bound) :
                /\ i <= k => bound[i] = [ctype |-> parameters[i].ctype, content |-> parameters[i].content,
                                         ind |-> parameters[i].ind, at |-> i]
                /\ i > k => i <= Len(bindings) /\ bound[i] = bindings[i]
<1>1. /\ parameters \in Seq(ParameterType) /\ Len(parameters) = markers
      /\ bindings \in Seq(Binding) /\ Len(bindings) \in 0..MaxParams
      /\ markers \in 0..MaxParams /\ MaxParams \in Nat
  BY ValuesAssumption DEF TypeOK
<1> DEFINE n == IF Len(bindings) > k THEN Len(bindings) ELSE k
<1>2. n \in 0..MaxParams /\ k <= n /\ k \in Nat
  BY <1>1
<1>0. \A i \in 1..k : parameters[i] \in ParameterType
  BY <1>1
<1>3. \A i \in 1..k : /\ i \in 0..MaxParams
                      /\ parameters[i].ctype \in CTypes /\ parameters[i].content \in Nat /\ parameters[i].ind \in Int
  BY <1>0, <1>1 DEF ParameterType
<1>4. \A i \in 1..k : [ctype |-> parameters[i].ctype, content |-> parameters[i].content,
                       ind |-> parameters[i].ind, at |-> i] \in Binding
  BY <1>3 DEF Binding
<1>5. \A i \in 1..n : i > k => i <= Len(bindings) /\ bindings[i] \in Binding
  BY <1>1, <1>2
<1>6. BindParameters(parameters, k) =
        [i \in 1..n |-> IF i <= k THEN [ctype |-> parameters[i].ctype, content |-> parameters[i].content,
                                        ind |-> parameters[i].ind, at |-> i]
                                  ELSE bindings[i]]
  BY DEF BindParameters
<1> HIDE DEF n
<1> QED
  BY <1>2, <1>4, <1>5, <1>6

\* A replaced array stays what the driver reads.
LEMMA DetachedType ==
  ASSUME TypeOK, BoundInv
  PROVE  /\ Detached \in Seq(Binding)
         /\ Len(Detached) = Len(bindings)
         /\ \A i \in 1..Len(Detached) : Detached[i].at = 0
<1>1. /\ bindings \in Seq(Binding) /\ Len(bindings) \in Nat
      /\ parameters \in Seq(ParameterType)
      /\ allocated => Len(parameters) = markers
      /\ MaxParams \in Nat
  BY ValuesAssumption DEF TypeOK
<1>2. ASSUME NEW i \in 1..Len(bindings)
      PROVE  Detached[i] \in Binding /\ Detached[i].at = 0
  <2>1. bindings[i] \in Binding
    BY <1>1
  <2>2. CASE bindings[i].at = 0
    BY <2>1, <2>2 DEF Detached
  <2>3. CASE bindings[i].at # 0
    <3>1. bindings[i].at = i /\ i \in 1..Len(parameters)
      BY <1>1, <2>3 DEF BoundInv
    <3>2. parameters[i] \in ParameterType
      BY <1>1, <3>1
    <3>3. Detached[i] = [bindings[i] EXCEPT !.ind = parameters[i].ind, !.at = 0]
      BY <2>3, <3>1 DEF Detached
    <3>4. 0 \in 0..MaxParams
      BY <1>1
    <3>5. parameters[i].ind \in Int
      BY <3>2 DEF ParameterType
    <3> QED
      BY <2>1, <3>3, <3>4, <3>5 DEF Binding
  <2> QED
    BY <2>2, <2>3
<1>3. DOMAIN Detached = 1..Len(bindings) /\ Detached = [i \in 1..Len(bindings) |-> Detached[i]]
  BY DEF Detached
<1> HIDE DEF Detached
<1> QED
  BY <1>1, <1>2, <1>3

-----------------------------------------------------------------------------
(* Types, and which data a call works on.                                  *)

\* Nothing has been given or stored.
LEMMA NothingYet == \A S : <<>> \in Seq(S) /\ Len(<<>>) = 0
  OBVIOUS

LEMMA BeginType ==
  ASSUME NEW op \in {"prepare", "bind", "execute", "query", "procedure"}, Begin(op) \/ Refused(op)
  PROVE  call' \in Calling
<1>1. CASE Begin(op)
  BY <1>1 DEF Begin, Calling
<1>2. CASE Refused(op)
  BY <1>2 DEF Refused, Calling
<1> QED
  BY <1>1, <1>2

LEMMA InitTInv == Init => TInv
<1> SUFFICES ASSUME Init PROVE TInv
  OBVIOUS
<1>1. MaxParams \in Nat
  BY ValuesAssumption
<1>2. TypeOK
  <2>1. call \in Calling
    BY DEF Init, Calling
  <2> QED
    <3>1. 0 \in 0..MaxParams /\ 0 <= MaxParams
      BY <1>1
    <3>2. parameters \in Seq(ParameterType) /\ bindings \in Seq(Binding) /\ Len(bindings) = 0
      BY NothingYet DEF Init
    <3>3. sent \in Seq([ctype : CTypes, content : Nat, length : Int]) /\ returned \in Seq(Given)
      BY NothingYet DEF Init
    <3> QED
      BY <2>1, <3>1, <3>2, <3>3 DEF Init, TypeOK
<1>3. BoundInv /\ CallInv
  BY DEF Init, BoundInv, CallInv, Once, Runs
<1> QED
  BY <1>2, <1>3 DEF TInv

LEMMA CallPrepareTyped == ASSUME TInv, CallPrepare PROVE TInv'
<1>1. TypeOK'
  BY BeginType DEF TInv, TypeOK, CallPrepare
<1> USE DEF CallPrepare, Begin, IdleNow
<1>2. BoundInv'
  BY DEF TInv, BoundInv
<1>3. CallInv'
  BY DEF CallInv, Once, Runs
<1> QED
  BY <1>1, <1>2, <1>3 DEF TInv

LEMMA CallBindTyped == ASSUME TInv, NEW values \in Arrays, CallBind(values) PROVE TInv'
<1>1. /\ passed' = values /\ relied' = {} /\ procedure = <<>>
      /\ UNCHANGED <<allocated, bindings, markers, procedure, sent, returned>>
  BY DEF CallBind
<1>2. CASE Len(values) # markers \/ ~allocated
  <2>1. Refused("bind") /\ UNCHANGED parameters
    BY <1>2 DEF CallBind
  <2>2. TypeOK'
    BY <1>1, <2>1, BeginType DEF TInv, TypeOK
  <2>3. BoundInv'
    BY <1>1 DEF TInv, BoundInv
  <2>4. CallInv'
    BY <1>1, <2>1 DEF CallInv, Once, Runs, Refused
  <2> QED
    BY <2>2, <2>3, <2>4 DEF TInv
<1>3. CASE Len(values) = markers /\ allocated
  <2>1. Begin("bind") /\ parameters' = StoreBindValues(parameters, values)
    BY <1>3 DEF CallBind
  <2>2. parameters \in Seq(ParameterType) /\ Len(parameters) = markers
    BY <1>3 DEF TInv, TypeOK
  <2>3. parameters' \in Seq(ParameterType) /\ Len(parameters') = markers
    BY <1>3, <2>1, <2>2, StoreType
  <2>4. TypeOK'
    BY <1>1, <2>1, <2>3, BeginType DEF TInv, TypeOK
  <2>5. BoundInv'
    BY <1>1 DEF TInv, BoundInv
  <2>6. CallInv'
    BY <1>1, <1>3, <2>1 DEF CallInv, Once, Runs, Begin
  <2> QED
    BY <2>4, <2>5, <2>6 DEF TInv
<1> QED
  BY <1>2, <1>3

LEMMA CallExecuteTyped == ASSUME TInv, CallExecute PROVE TInv'
<1>1. TypeOK'
  BY BeginType DEF TInv, TypeOK, CallExecute
<1> USE DEF CallExecute, Begin, IdleNow
<1>2. BoundInv'
  BY DEF TInv, BoundInv
<1>3. CallInv'
  BY DEF CallInv, Once, Runs
<1> QED
  BY <1>1, <1>2, <1>3 DEF TInv

LEMMA CallOnceTyped ==
  ASSUME TInv, NEW values \in Arrays, NEW op \in {"query", "procedure"},
         NEW proc \in Procedures \cup {<<>>}, op = "query" => proc = <<>>,
         CallOnce(op, values, proc)
  PROVE  TInv'
<1>1. parameters' \in Seq(ParameterType) /\ Len(parameters') = Len(values)
  <2>1. Len(values) \in Nat
    BY ArraysType
  <2> QED
    BY <2>1, NewType, StoreType DEF CallOnce
<1>2. TypeOK'
  BY <1>1, BeginType DEF TInv, TypeOK, CallOnce
<1> USE DEF CallOnce, Begin, IdleNow
<1>3. BoundInv'
  BY DEF TInv, BoundInv
<1>4. CallInv'
  BY <1>1 DEF CallInv, Once, Runs
<1> QED
  BY <1>2, <1>3, <1>4 DEF TInv

LEMMA PrepareTyped == ASSUME TInv, PrepareRuns PROVE TInv'
<1>1. call' = [call EXCEPT !.at = "done", !.failed = FALSE] \/ call' = [call EXCEPT !.at = "done", !.failed = TRUE]
  BY DEF PrepareRuns, Ends
<1>2. CASE UNCHANGED <<allocated, parameters, bindings, markers>>
  <2>1. TypeOK'
    BY <1>1, <1>2 DEF TInv, TypeOK, Calling, PrepareRuns
  <2>2. BoundInv'
    BY <1>2 DEF TInv, BoundInv
  <2>3. CallInv'
    BY <1>1, <1>2 DEF TInv, TypeOK, Calling, CallInv, Once, Runs, PrepareRuns
  <2> QED
    BY <2>1, <2>2, <2>3 DEF TInv
<1>3. ASSUME NEW n \in 0..MaxParams, markers' = n, allocated' = TRUE,
             parameters' = NewParameters(n), bindings' = Detached
      PROVE  TInv'
  <2>1. n \in Nat
    BY <1>3, ValuesAssumption
  <2>2. parameters' \in Seq(ParameterType) /\ Len(parameters') = n
    BY <1>3, <2>1, NewType
  <2>3. /\ bindings' \in Seq(Binding)
        /\ Len(bindings') = Len(bindings)
        /\ \A i \in 1..Len(bindings') : bindings'[i].at = 0
    BY <1>3, DetachedType DEF TInv
  <2>4. TypeOK'
    BY <1>1, <1>3, <2>2, <2>3 DEF TInv, TypeOK, Calling, PrepareRuns
  <2>5. BoundInv'
    BY <2>3 DEF BoundInv
  <2>6. CallInv'
    BY <1>1, <1>3 DEF TInv, TypeOK, Calling, CallInv, Once, Runs, PrepareRuns
  <2> QED
    BY <2>4, <2>5, <2>6 DEF TInv
<1> QED
  BY <1>2, <1>3 DEF PrepareRuns

LEMMA BindTyped == ASSUME TInv, BindRuns PROVE TInv'
<1>1. PICK k \in 0..markers :
        /\ bindings' = BindParameters(parameters, k)
        /\ IF k < markers THEN Ends(TRUE) /\ UNCHANGED relied ELSE Ends(FALSE) /\ relied' = {passed}
  <2>1. markers \in 0..markers
    BY DEF TInv, TypeOK
  <2> QED
    BY <2>1 DEF BindRuns
<1>2. allocated /\ passed \in Arrays /\ Len(passed) = markers /\ relied = {}
  BY DEF BindRuns, TInv, CallInv
<1>3. /\ bindings' \in Seq(Binding) /\ Len(bindings') \in 0..MaxParams
      /\ \A i \in 1..Len(bindings') :
           /\ i <= k => bindings'[i].at = i
           /\ i > k => i <= Len(bindings) /\ bindings'[i] = bindings[i]
  <2>1. TypeOK /\ BoundInv /\ k \in 0..markers
    BY DEF TInv
  <2> DEFINE bound == BindParameters(parameters, k)
  <2>2. /\ bound \in Seq(Binding) /\ Len(bound) \in 0..MaxParams
        /\ \A i \in 1..Len(bound) :
             /\ i <= k => bound[i].at = i
             /\ i > k => i <= Len(bindings) /\ bound[i] = bindings[i]
    <3>1. /\ bound \in Seq(Binding) /\ Len(bound) \in 0..MaxParams
          /\ \A i \in 1..Len(bound) : i > k => i <= Len(bindings) /\ bound[i] = bindings[i]
      BY <1>2, <2>1, BindType
    <3>2. ASSUME NEW i \in 1..Len(bound), i <= k PROVE bound[i].at = i
      <4>1. bound[i] = [ctype |-> parameters[i].ctype, content |-> parameters[i].content,
                        ind |-> parameters[i].ind, at |-> i]
        BY <1>2, <2>1, <3>2, BindType
      <4> QED
        BY <4>1
    <3> QED
      BY <3>1, <3>2
  <2> HIDE DEF bound
  <2>3. bindings' = bound
    BY <1>1 DEF bound
  <2> QED
    BY <2>2, <2>3
<1>4. call' = [call EXCEPT !.at = "done", !.failed = FALSE] \/ call' = [call EXCEPT !.at = "done", !.failed = TRUE]
  BY <1>1 DEF Ends
<1>5. relied' \subseteq Arrays
  BY <1>1, <1>2
<1>6. UNCHANGED <<allocated, parameters, markers, passed, procedure, sent, returned>>
  BY DEF BindRuns
<1>7. TypeOK'
  <2>1. call' \in Calling
    BY <1>4 DEF TInv, TypeOK, Calling
  <2> QED
    BY <1>2, <1>3, <1>5, <1>6, <2>1, ValuesAssumption DEF TInv, TypeOK
<1>8. BoundInv'
  <2> SUFFICES ASSUME NEW i \in 1..Len(bindings'), bindings'[i].at # 0
               PROVE  allocated /\ bindings'[i].at = i /\ i <= markers
    BY <1>6 DEF BoundInv
  <2>1. CASE i <= k
    BY <1>2, <1>3, <2>1 DEF TInv, TypeOK
  <2>2. CASE i > k
    BY <1>2, <1>3, <2>2 DEF TInv, BoundInv
  <2> QED
    BY <1>3, <2>1, <2>2 DEF TInv, TypeOK
<1>9. CallInv'
  BY <1>4, <1>6 DEF TInv, TypeOK, Calling, CallInv, Once, Runs, BindRuns
<1> QED
  BY <1>7, <1>8, <1>9 DEF TInv

LEMMA FailsTyped == ASSUME TInv, Fails PROVE TInv'
<1>1. call' = [call EXCEPT !.at = "done", !.failed = TRUE]
  BY DEF Fails, Ends
<1>2. TypeOK'
  BY <1>1 DEF TInv, TypeOK, Calling, Fails
<1>3. BoundInv'
  BY DEF TInv, BoundInv, Fails
<1>4. CallInv'
  BY <1>1 DEF TInv, TypeOK, Calling, CallInv, Once, Runs, Fails
<1> QED
  BY <1>2, <1>3, <1>4 DEF TInv

LEMMA ReadType ==
  ASSUME TInv, NEW i \in 1..Len(bindings)
  PROVE  Read(bindings[i]) \in [ctype : CTypes, content : Nat, length : Int]
<1> DEFINE b == bindings[i]
<1>1. b \in Binding
  BY DEF TInv, TypeOK
<1>2. b.at # 0 => parameters[b.at].ind \in Int
  <2>1. b.at # 0 => b.at = i /\ i \in 1..Len(parameters)
    BY DEF TInv, TypeOK, BoundInv
  <2>2. i \in 1..Len(parameters) => parameters[i] \in ParameterType
    BY DEF TInv, TypeOK
  <2> QED
    BY <2>1, <2>2 DEF ParameterType
<1> HIDE DEF b
<1>3. ASSUME NEW ind \in Int
      PROVE  ReadAt(b, ind) \in [ctype : CTypes, content : Nat, length : Int]
  BY <1>1 DEF ReadAt, Binding, NullData, Cleared, CTypes
<1>4. (IF b.at = 0 THEN b.ind ELSE parameters[b.at].ind) \in Int
  BY <1>1, <1>2 DEF Binding
<1> QED
  BY <1>3, <1>4 DEF Read, b

LEMMA ExecuteTyped == ASSUME TInv, ExecuteRuns PROVE TInv'
<1>1. call' = [call EXCEPT !.at = "done", !.failed = FALSE]
  BY DEF ExecuteRuns, Ends
<1>2. sent' \in Seq([ctype : CTypes, content : Nat, length : Int])
  <2>1. markers \in Nat /\ markers <= Len(bindings)
    BY ValuesAssumption DEF TInv, TypeOK, Calling, ExecuteRuns, Unbound
  <2>2. \A i \in 1..markers : Read(bindings[i]) \in [ctype : CTypes, content : Nat, length : Int]
    BY <2>1, ReadType DEF TInv, TypeOK
  <2> QED
    BY <2>1, <2>2 DEF ExecuteRuns
<1>3. TypeOK'
  BY <1>1, <1>2 DEF TInv, TypeOK, Calling, ExecuteRuns
<1>4. BoundInv'
  BY DEF TInv, BoundInv, ExecuteRuns
<1>5. CallInv'
  BY <1>1 DEF TInv, TypeOK, Calling, CallInv, Once, Runs, ExecuteRuns
<1> QED
  BY <1>3, <1>4, <1>5 DEF TInv

\* The parameters of a query, or of a procedure prepared for output.
Prepared == IF call.op = "query" THEN parameters ELSE ForProcedure(parameters, procedure)

LEMMA PreparedType ==
  ASSUME TInv, Once, call.op = "procedure" => Len(procedure) = Len(parameters)
  PROVE  Prepared \in Seq(ParameterType) /\ Len(Prepared) = Len(parameters)
<1>1. parameters \in Seq(ParameterType)
  BY DEF TInv, TypeOK
<1>2. CASE call.op = "query"
  BY <1>1, <1>2 DEF Prepared
<1>3. CASE call.op = "procedure" /\ procedure \in Procedures
  BY <1>1, <1>3, ForProcedureType DEF Prepared
<1>4. CASE call.op = "procedure" /\ procedure = <<>>
  <2>1. Len(parameters) = 0 /\ Prepared = <<>>
    BY <1>1, <1>4 DEF Prepared, ForProcedure
  <2> QED
    BY <1>1, <2>1
<1> QED
  BY <1>2, <1>3, <1>4 DEF Once, TInv, TypeOK

LEMMA OnceTyped == ASSUME TInv, OnceRuns PROVE TInv'
<1>1. Once
  BY DEF OnceRuns, Once
<1>2. Prepared \in Seq(ParameterType) /\ Len(Prepared) = Len(parameters)
  BY <1>1, PreparedType DEF OnceRuns
<1>3. PICK given \in [1..Len(Prepared) -> Given] :
        /\ parameters' = [i \in 1..Len(Prepared) |->
                            IF Overwritten(i) THEN Written(Prepared[i], given[i]) ELSE Prepared[i]]
        /\ returned' = given
  BY DEF OnceRuns, Prepared
<1>4. sent' = [i \in 1..Len(Prepared) |-> ReadAt(Prepared[i], Prepared[i].ind)]
  BY DEF OnceRuns, Prepared
<1>5. call' = [call EXCEPT !.at = "done", !.failed = FALSE]
  BY DEF OnceRuns, Ends
<1>6. UNCHANGED <<allocated, bindings, markers, passed, procedure, relied>>
  BY DEF OnceRuns
<1> DEFINE n == Len(Prepared)
<1>7. n \in Nat /\ \A i \in 1..n : Prepared[i] \in ParameterType
  BY <1>2
<1> HIDE DEF n, Prepared
<1>8. parameters' \in Seq(ParameterType) /\ Len(parameters') = Len(parameters)
  <2>1. \A i \in 1..n : Written(Prepared[i], given[i]) \in ParameterType
    BY <1>7, WrittenType DEF n
  <2> QED
    BY <1>2, <1>3, <1>7, <2>1 DEF n
<1>9. sent' \in Seq([ctype : CTypes, content : Nat, length : Int])
  <2>1. \A i \in 1..n : ReadAt(Prepared[i], Prepared[i].ind) \in [ctype : CTypes, content : Nat, length : Int]
    BY <1>7 DEF ReadAt, ParameterType, NullData, Cleared, CTypes
  <2> QED
    BY <1>4, <1>7, <2>1 DEF n
<1>10. returned' \in Seq(Given)
  BY <1>3, <1>7 DEF n
<1>11. TypeOK'
  BY <1>1, <1>5, <1>6, <1>8, <1>9, <1>10 DEF TInv, TypeOK, Calling, CallInv
<1>12. BoundInv'
  BY <1>6 DEF TInv, BoundInv
<1>13. CallInv'
  BY <1>1, <1>5, <1>6, <1>8 DEF TInv, TypeOK, Calling, CallInv, Once, Runs
<1> QED
  BY <1>11, <1>12, <1>13 DEF TInv

LEMMA AnswerTyped == ASSUME TInv, Answer PROVE TInv'
<1>1. call' = [call EXCEPT !.at = "idle"] /\ procedure' = <<>>
  BY DEF Answer
<1>2. TypeOK'
  <2>1. call' \in Calling
    BY <1>1 DEF TInv, TypeOK, Calling
  <2>2. /\ parameters' \in Seq(ParameterType)
        /\ allocated' => Len(parameters') = markers'
        /\ passed' \in Arrays \cup {<<>>}
        /\ relied' \subseteq Arrays
    <3>1. CASE call.op \in {"query", "procedure"}
      <4>1. ~allocated' /\ parameters' = <<>> /\ passed' = <<>> /\ relied' = {}
        BY <3>1 DEF Answer, TInv, CallInv, Once
      <4> QED
        BY <4>1, NothingYet
    <3>2. CASE call.op \notin {"query", "procedure"}
      BY <3>2 DEF Answer, TInv, TypeOK
    <3> QED
      BY <3>1, <3>2
  <2>3. sent' = <<>> /\ returned' = <<>> /\ UNCHANGED <<allocated, bindings, markers>>
    BY DEF Answer
  <2> QED
    BY <1>1, <2>1, <2>2, <2>3, NothingYet DEF TInv, TypeOK
<1>3. BoundInv'
  BY DEF TInv, BoundInv, Answer
<1>4. CallInv'
  BY <1>1 DEF TInv, TypeOK, Calling, CallInv, Once, Runs
<1> QED
  BY <1>2, <1>3, <1>4 DEF TInv

LEMMA StepTyped == TInv /\ [Next]_vars => TInv'
<1> SUFFICES ASSUME TInv, [Next]_vars PROVE TInv'
  OBVIOUS
<1>1. CASE UNCHANGED vars
  <2>1. TypeOK'
    BY <1>1 DEF TInv, TypeOK, vars
  <2>2. BoundInv' /\ CallInv'
    BY <1>1 DEF TInv, BoundInv, CallInv, Once, Runs, vars
  <2> QED
    BY <2>1, <2>2 DEF TInv
<1>2. ASSUME NEW values \in Arrays, CallOnce("query", values, <<>>)
      PROVE  TInv'
  BY <1>2, CallOnceTyped
<1>3. ASSUME NEW values \in Arrays, NEW proc \in Procedures, CallOnce("procedure", values, proc)
      PROVE  TInv'
  BY <1>3, CallOnceTyped
<1> QED
  BY <1>1, <1>2, <1>3, CallPrepareTyped, CallBindTyped, CallExecuteTyped, PrepareTyped,
     BindTyped, FailsTyped, ExecuteTyped, OnceTyped, AnswerTyped DEF Next

-----------------------------------------------------------------------------
(* Values, of a program that keeps to those the code is right for.         *)

Results == SentAsBound /\ ResultParametersTrue

\* Nothing is claimed before an execution has succeeded.
LEMMA NoResult == ASSUME ~Succeeded' PROVE Results'
BY DEF Results, SentAsBound, ResultParametersTrue

LEMMA BeginNoResult ==
  ASSUME NEW op, Begin(op) \/ Refused(op)
  PROVE  ~Succeeded'
BY DEF Begin, Refused, Succeeded

LEMMA InitValues == Init => ValuesInv /\ Results
BY DEF Init, ValuesInv, Results, SentAsBound, ResultParametersTrue, Once, Runs, Succeeded

LEMMA CallPrepareValues == ASSUME CallPrepare PROVE ValuesInv' /\ Results'
<1>1. ValuesInv'
  BY DEF CallPrepare, Begin, ValuesInv, Once, Runs
<1> QED
  BY <1>1, BeginNoResult, NoResult DEF CallPrepare

\* Storing makes the parameters read as the values, unless one of these is left out.
LEMMA CallBindValues ==
  ASSUME Careful = TRUE, TInv, NEW values \in Arrays, CallBind(values)
  PROVE  ValuesInv' /\ Results'
<1>1. CASE Len(values) # markers \/ ~allocated
  <2>1. call' = [op |-> "bind", at |-> "done", failed |-> TRUE] /\ relied' = {}
    BY <1>1 DEF CallBind, Refused
  <2> QED
    BY <2>1, NoResult DEF ValuesInv, Once, Runs, Succeeded
<1>2. CASE Len(values) = markers /\ allocated
  <2>1. /\ call' = [op |-> "bind", at |-> "queued", failed |-> FALSE]
        /\ parameters' = StoreBindValues(parameters, values)
        /\ \A i \in 1..Len(values) : Handled(values[i], parameters[i])
        /\ passed' = values /\ relied' = {} /\ markers' = markers
    BY <1>2 DEF CallBind, Begin
  <2>2. parameters \in Seq(ParameterType) /\ Len(parameters) = markers
    BY <1>2 DEF TInv, TypeOK
  <2>3. ASSUME NEW i \in 1..markers
        PROVE  ReadAt(parameters'[i], parameters'[i].ind) = Native(values[i])
    <3>1. parameters[i] \in ParameterType /\ values[i] \in Values /\ Handled(values[i], parameters[i])
      BY <1>2, <2>1, <2>2, ArraysType
    <3>2. parameters'[i] = Stored(parameters[i], values[i])
      BY <1>2, <2>1, <2>2, StoreType
    <3> QED
      BY <3>1, <3>2, StoredReads
  <2>4. ValuesInv'
    BY <2>1, <2>3 DEF ValuesInv, Once, Runs
  <2> QED
    BY <2>1, <2>4, NoResult DEF Succeeded
<1> QED
  BY <1>1, <1>2

LEMMA CallExecuteValues == ASSUME ValuesInv, CallExecute PROVE ValuesInv' /\ Results'
<1>1. /\ call' = [op |-> "execute", at |-> "queued", failed |-> FALSE] /\ ~Once
      /\ UNCHANGED <<allocated, parameters, bindings, markers, passed, relied>>
  BY DEF CallExecute, Begin, IdleNow, Once
<1>2. ValuesInv'
  BY <1>1 DEF ValuesInv, Once, Runs, Read
<1> QED
  BY <1>1, <1>2, NoResult DEF Succeeded

LEMMA CallOnceValues ==
  ASSUME Careful = TRUE, NEW values \in Arrays, NEW op \in {"query", "procedure"},
         NEW proc, CallOnce(op, values, proc)
  PROVE  ValuesInv' /\ Results'
<1>1. /\ call' = [op |-> op, at |-> "queued", failed |-> FALSE]
      /\ parameters' = StoreBindValues(NewParameters(Len(values)), values)
      /\ \A i \in 1..Len(values) :
           IF i <= Len(proc) THEN HandledHere(values[i], proc[i]) ELSE values[i].kind # "other"
      /\ passed' = values /\ procedure' = proc
  BY DEF CallOnce, Begin
<1>2. ValuesInv'
  BY <1>1 DEF ValuesInv, HandledAt, Once, Runs
<1> QED
  BY <1>1, <1>2, NoResult DEF Succeeded

LEMMA PrepareValues == ASSUME TInv, PrepareRuns PROVE ValuesInv' /\ Results'
<1>1. /\ call'.op = "prepare" /\ call'.at = "done"
      /\ relied' = {}
  BY DEF PrepareRuns, Ends, Runs, TInv, TypeOK, Calling, CallInv
<1> QED
  BY <1>1, NoResult DEF ValuesInv, Once, Runs, Succeeded

\* Once every position is bound again the driver reads what was stored.
LEMMA BindValues == ASSUME TInv, ValuesInv, BindRuns PROVE ValuesInv' /\ Results'
<1>1. PICK k \in 0..markers :
        /\ bindings' = BindParameters(parameters, k)
        /\ IF k < markers THEN UNCHANGED relied ELSE relied' = {passed}
  <2>1. markers \in 0..markers
    BY DEF TInv, TypeOK
  <2> QED
    BY <2>1 DEF BindRuns
<1>2. /\ Runs("bind") /\ allocated /\ passed \in Arrays /\ Len(passed) = markers /\ relied = {}
      /\ UNCHANGED <<allocated, parameters, markers, passed>>
  BY DEF BindRuns, TInv, CallInv
<1>3. call'.op = "bind" /\ call'.at = "done"
  BY DEF BindRuns, Ends, Runs, TInv, TypeOK, Calling
<1>4. CASE k < markers
  BY <1>1, <1>2, <1>3, <1>4, NoResult DEF ValuesInv, Once, Runs, Succeeded
<1>5. CASE k = markers
  <2>1. TypeOK /\ BoundInv /\ k \in 0..markers /\ markers \in Nat
    BY ValuesAssumption DEF TInv, TypeOK
  <2>2. markers <= Len(bindings')
    BY <1>1, <1>2, <1>5, <2>1, BindType
  <2>3. ASSUME NEW i \in 1..markers
        PROVE  bindings'[i].at = i /\ Read(bindings[i])' = Native(passed[i])
    <3>1. bindings'[i] = [ctype |-> parameters[i].ctype, content |-> parameters[i].content,
                          ind |-> parameters[i].ind, at |-> i]
      <4>1. i \in 1..Len(bindings') /\ i <= k
        BY <1>1, <1>2, <1>5, <2>1, BindType
      <4> QED
        BY <1>1, <1>2, <2>1, <4>1, BindType
    <3>2. Read(bindings[i])' = ReadAt(parameters[i], parameters[i].ind)
      BY <1>2, <2>1, <3>1 DEF Read, ReadAt
    <3>3. ReadAt(parameters[i], parameters[i].ind) = Native(passed[i])
      BY <1>2 DEF ValuesInv
    <3> QED
      BY <3>1, <3>2, <3>3
  <2>4. relied' = {passed}
    BY <1>1, <1>5, <2>1
  <2> QED
    BY <1>2, <1>3, <2>2, <2>3, <2>4, NoResult DEF ValuesInv, Once, Runs, Succeeded
<1> QED
  BY <1>1, <1>4, <1>5 DEF TInv, TypeOK

LEMMA FailsValues == ASSUME TInv, ValuesInv, Fails PROVE ValuesInv' /\ Results'
<1>1. /\ call'.op = call.op /\ call'.at = "done" /\ call'.failed
      /\ UNCHANGED <<allocated, parameters, bindings, markers, passed, relied>>
  BY DEF Fails, Ends, TInv, TypeOK, Calling
<1>2. Once' <=> Once
  BY <1>1 DEF Fails, Once
<1>3. ValuesInv'
  BY <1>1, <1>2 DEF ValuesInv, Runs, Read
<1> QED
  BY <1>1, <1>3, NoResult DEF Succeeded

LEMMA ExecuteValues == ASSUME TInv, ValuesInv, ExecuteRuns PROVE ValuesInv' /\ Results'
<1>1. /\ call'.op = "execute" /\ call'.at = "done" /\ ~Once /\ ~Once'
      /\ UNCHANGED <<allocated, parameters, bindings, markers, passed, procedure, relied>>
      /\ sent' = [i \in 1..markers |-> Read(bindings[i])]
  BY DEF ExecuteRuns, Ends, Runs, TInv, TypeOK, Calling, Once
<1>2. procedure = <<>>
  BY <1>1 DEF TInv, CallInv
<1>3. ValuesInv'
  BY <1>1 DEF ValuesInv, Runs, Read
<1>4. ASSUME NEW values \in relied
      PROVE  /\ values = passed
             /\ Len(values) = markers
             /\ \A i \in 1..markers : Read(bindings[i]) = Native(values[i])
  BY <1>1, <1>4 DEF ValuesInv
<1>5. SentAsBound'
  BY <1>1, <1>4 DEF SentAsBound
<1>6. ASSUME NEW values \in relied', NEW i \in 1..Len(values)
      PROVE  ParametersToArray'[i] = values[i]
  BY <1>1, <1>2, <1>4, <1>6 DEF ParametersToArray, Overwritten
<1>7. ResultParametersTrue'
  BY <1>1, <1>2, <1>6 DEF ResultParametersTrue, IsOutput
<1> QED
  BY <1>3, <1>5, <1>7 DEF Results

LEMMA AnswerValues == ASSUME TInv, ValuesInv, Answer PROVE ValuesInv' /\ Results'
<1>1. call' = [call EXCEPT !.at = "idle"] /\ call'.at = "idle" /\ ~Once'
  BY DEF Answer, TInv, TypeOK, Calling, Once
<1>2. CASE Once
  <2>1. relied' = {}
    BY <1>2 DEF Answer, Once
  <2> QED
    BY <1>1, <2>1, NoResult DEF ValuesInv, Runs, Succeeded
<1>3. CASE ~Once
  <2>1. UNCHANGED <<allocated, parameters, bindings, markers, passed, relied>>
    BY <1>3 DEF Answer, Once
  <2> QED
    BY <1>1, <1>3, <2>1, NoResult DEF ValuesInv, Runs, Read, Succeeded
<1> QED
  BY <1>2, <1>3

\* One parameter of a query or a procedure: what is read from it, and what is told of it.
LEMMA OneOfOnce ==
  ASSUME TInv, ValuesInv, Once, call.at = "queued",
         call.op = "procedure" => Len(procedure) = Len(parameters),
         NEW i \in 1..Len(passed)
  PROVE  /\ ReadAt(Prepared[i], Prepared[i].ind) = Native(passed[i]) \/ ~IsInput(i)
         /\ IsOutput(i) => \A g \in Given : TellsGiven(Prepared[i], g)
<1>1. /\ passed \in Arrays /\ Len(parameters) = Len(passed) /\ passed[i] \in Values
      /\ Len(passed) \in Nat
  BY ArraysType DEF TInv, CallInv
<1>2. parameters = StoreBindValues(NewParameters(Len(passed)), passed) /\ HandledAt(i)
  BY DEF ValuesInv
<1>3. parameters[i] = Stored(NewParameter, passed[i])
  <2>1. NewParameters(Len(passed)) \in Seq(ParameterType) /\ Len(NewParameters(Len(passed))) = Len(passed)
    BY <1>1, NewType
  <2>2. NewParameters(Len(passed))[i] = NewParameter
    BY <1>1, NewType
  <2> QED
    BY <1>1, <1>2, <2>1, <2>2, StoreType
<1>4. IsInput(i) => passed[i].kind # "other"
  <2>1. CASE i <= Len(procedure)
    BY <1>2, <2>1 DEF HandledAt, HandledHere, IsInput
  <2>2. CASE ~(i <= Len(procedure))
    BY <1>2, <2>2 DEF HandledAt
  <2> QED
    BY <2>1, <2>2
<1>5. IsInput(i) => ReadAt(parameters[i], parameters[i].ind) = Native(passed[i])
  BY <1>1, <1>3, <1>4, NewIsHandled, StoredReads
<1>6. parameters[i] \in ParameterType
  BY <1>1, <1>3, NewIsHandled, StoredType
<1>7. CASE procedure = <<>>
  <2>1. Prepared = parameters
    <3>1. CASE call.op = "query"
      BY <3>1 DEF Prepared
    <3>2. CASE call.op = "procedure"
      BY <1>1, <1>7, <3>2
    <3> QED
      BY <3>1, <3>2 DEF Once
  <2> QED
    BY <1>5, <1>7, <2>1 DEF IsOutput, IsInput
<1>8. CASE procedure # <<>>
  <2>1. call.op = "procedure" /\ procedure \in Procedures /\ Len(procedure) = Len(passed)
    BY <1>1, <1>8 DEF TInv, TypeOK, CallInv
  <2> DEFINE d == procedure[i]
  <2>2. d \in [io : Directions, type : SqlTypes]
    BY <1>1, <2>1, ProceduresType
  <2>3. HandledHere(passed[i], d)
    BY <1>1, <1>2, <2>1 DEF HandledAt
  <2>4. Prepared[i] = CASE d.io = "in"    -> parameters[i]
                        [] d.io = "inout" -> ForInOut(parameters[i], d.type)
                        [] d.io = "out"   -> ForOut(parameters[i], d.type)
    BY <1>1, <2>1 DEF Prepared, ForProcedure
  <2> HIDE DEF d
  <2>5. CASE d.io = "in"
    BY <1>5, <1>8, <2>4, <2>5 DEF IsOutput, IsInput, d
  <2>6. CASE d.io = "inout"
    <3>1. d \in [io : {"inout"}, type : SqlTypes]
      BY <2>2, <2>6
    <3>2. Prepared[i] = ForInOut(Stored(NewParameter, passed[i]), d.type)
      BY <1>3, <2>4, <2>6
    <3>3. ReadAt(Prepared[i], Prepared[i].ind) = Native(passed[i])
      BY <1>1, <2>3, <3>1, <3>2, InOutReads
    <3>4. \A g \in Given : TellsGiven(Prepared[i], g)
      BY <1>1, <2>3, <3>1, <3>2, InOutTells
    <3> QED
      BY <3>3, <3>4
  <2>7. CASE d.io = "out"
    <3>1. d.type \in SqlTypes \ {"tinyint"}
      BY <2>2, <2>3, <2>7 DEF HandledHere
    <3>2. Prepared[i] = ForOut(parameters[i], d.type)
      BY <2>4, <2>7
    <3>3. ~IsInput(i)
      BY <1>8, <2>7 DEF IsInput, d
    <3> QED
      BY <1>6, <3>1, <3>2, <3>3, OutTells
  <2> QED
    BY <2>2, <2>5, <2>6, <2>7 DEF Directions
<1> QED
  BY <1>7, <1>8

LEMMA OnceValues == ASSUME TInv, ValuesInv, OnceRuns PROVE ValuesInv' /\ Results'
<1>1. Once /\ call.at = "queued" /\ (call.op = "procedure" => Len(procedure) = Len(parameters))
  BY DEF OnceRuns, Once
<1>2. /\ passed \in Arrays /\ relied = {passed} /\ Len(parameters) = Len(passed)
      /\ Len(passed) \in Nat
  BY <1>1, ArraysType DEF TInv, CallInv
<1>3. Len(Prepared) = Len(passed)
  BY <1>1, <1>2, PreparedType
<1>4. PICK given \in [1..Len(passed) -> Given] :
        /\ parameters' = [i \in 1..Len(passed) |->
                            IF Overwritten(i) THEN Written(Prepared[i], given[i]) ELSE Prepared[i]]
        /\ returned' = given
  BY <1>3 DEF OnceRuns, Prepared
<1>5. sent' = [i \in 1..Len(passed) |-> ReadAt(Prepared[i], Prepared[i].ind)]
  BY <1>3 DEF OnceRuns, Prepared
<1>6. /\ call'.op = call.op /\ call'.at = "done"
      /\ UNCHANGED <<passed, procedure, relied>>
  BY DEF OnceRuns, Ends, TInv, TypeOK, Calling
<1> HIDE DEF Prepared
<1>7. ValuesInv'
  BY <1>1, <1>6 DEF ValuesInv, Once, Runs
<1>8. SentAsBound'
  BY <1>1, <1>2, <1>5, <1>6, OneOfOnce DEF SentAsBound, IsInput
<1>9. ResultParametersTrue'
  <2> SUFFICES ASSUME NEW i \in 1..Len(passed)
               PROVE  LET reported == ParametersToArray'[i] IN
                      CASE ~IsOutput(i)                              -> reported = passed[i]
                        [] IsOutput(i) /\ returned'[i] = NullData -> reported = Null
                        [] IsOutput(i) /\ returned'[i] # NullData -> /\ reported.kind \notin {"null", "other"}
                                                                       /\ reported.is = returned'[i]
    BY <1>2, <1>6 DEF ResultParametersTrue, IsOutput
  <2>1. CASE ~IsOutput(i)
    BY <1>6, <2>1 DEF ParametersToArray, Overwritten, IsOutput
  <2>2. CASE IsOutput(i)
    <3>1. ParametersToArray'[i] = ToValue(Written(Prepared[i], given[i]))
      BY <1>4, <1>6, <2>2 DEF ParametersToArray, Overwritten, IsOutput
    <3>2. TellsGiven(Prepared[i], given[i])
      BY <1>1, <1>4, <2>2, OneOfOnce
    <3> QED
      BY <1>4, <2>2, <3>1, <3>2 DEF TellsGiven
  <2> QED
    BY <2>1, <2>2
<1> QED
  BY <1>7, <1>8, <1>9 DEF Results

LEMMA StepValues ==
  ASSUME Careful = TRUE
  PROVE  TInv /\ ValuesInv /\ Results /\ [Next]_vars => ValuesInv' /\ Results'
<1> SUFFICES ASSUME TInv, ValuesInv, Results, [Next]_vars PROVE ValuesInv' /\ Results'
  OBVIOUS
<1>1. CASE UNCHANGED vars
  <2>1. ValuesInv'
    BY <1>1 DEF ValuesInv, Once, Runs, Read, HandledAt, vars
  <2>2. /\ Succeeded' <=> Succeeded
        /\ \A i \in 1..Len(passed) : IsInput(i)' <=> IsInput(i)
        /\ UNCHANGED <<relied, sent, passed, procedure, parameters, returned>>
    BY <1>1 DEF Succeeded, IsInput, vars
  <2>3. SentAsBound'
    BY <1>1 DEF Results, SentAsBound, Succeeded, IsInput, vars
  <2>4. ParametersToArray' = ParametersToArray
    BY <2>2 DEF ParametersToArray, Overwritten
  <2>5. ResultParametersTrue'
    <3> HIDE DEF ParametersToArray
    <3> QED
      BY <2>2, <2>4 DEF Results, ResultParametersTrue, IsOutput
  <2>6. Results'
    BY <2>3, <2>5 DEF Results
  <2> QED
    BY <2>1, <2>6
<1>2. ASSUME NEW values \in Arrays, CallOnce("query", values, <<>>)
      PROVE  ValuesInv' /\ Results'
  BY <1>2, CallOnceValues
<1>3. ASSUME NEW values \in Arrays, NEW proc \in Procedures, CallOnce("procedure", values, proc)
      PROVE  ValuesInv' /\ Results'
  BY <1>3, CallOnceValues
<1> QED
  BY <1>1, <1>2, <1>3, CallPrepareValues, CallBindValues, CallExecuteValues, PrepareValues,
     BindValues, FailsValues, ExecuteValues, OnceValues, AnswerValues DEF Next

-----------------------------------------------------------------------------
(* The theorems.                                                           *)

\* The invariant, with all that it rests on.
IInv == TInv /\ ValuesInv /\ Results

LEMMA AlwaysTyped == Spec => []TInv
<1> QED
  BY InitTInv, StepTyped, PTL DEF Spec

LEMMA AlwaysIInv == ASSUME Careful = TRUE PROVE Spec => []IInv
<1>1. Init => IInv
  BY InitTInv, InitValues DEF IInv
<1>2. IInv /\ [Next]_vars => IInv'
  BY StepTyped, StepValues DEF IInv
<1> QED
  BY <1>1, <1>2, PTL DEF Spec

\* Whatever is passed, the arrays of a statement stay of one length and typed: a
\* Parameter per marker, and every bound position either that Parameter or kept apart
\* (odbc_statement.cpp 110-143).
THEOREM ParameterTypes == Spec => []TypeOK
BY AlwaysTyped, PTL DEF TInv

\* What the driver reads is what was bound last, whatever was bound, prepared or failed
\* before, of a program that keeps to the values the code is right for (odbc.cpp 700-821).
THEOREM AlwaysSentAsBound == ASSUME Careful = TRUE PROVE Spec => []SentAsBound
BY AlwaysIInv, PTL DEF IInv, Results

\* And the parameters of its results are what was passed or what the procedure gave
\* (odbc_connection.cpp 1157-1222, 1400-1874).
THEOREM ResultParametersAlwaysTrue == ASSUME Careful = TRUE PROVE Spec => []ResultParametersTrue
BY AlwaysIInv, PTL DEF IInv, Results
=============================================================================
