------------------------------- MODULE Objects -------------------------------
(***************************************************************************)
(* The objects a running script handles: sqobject.cpp, sqclass.cpp,        *)
(* sqclass.h and the scalar operations of sqvm.cpp.                        *)
(*                                                                         *)
(* A value is a pair whose first element names its kind; <<"obj", n>> is   *)
(* the n-th object of the heap.  The machine is a record m (module Vm) of  *)
(* which only m.heap matters here.  Strings are names; the result of a     *)
(* string concatenation is <<"cat", <<a, b>>>>.  Floats are left out.      *)
(***************************************************************************)
EXTENDS Integers, Sequences, SequencesExt, FiniteSetsExt, Bitwise

CONSTANTS IntBits,    \* width of SQInteger: 64 in the code
          CIntBits    \* width of the C int whose INT_MIN the code names: 32

ASSUME ObjectsAssumption == IntBits \in 3..64 /\ CIntBits \in 3..IntBits

NullVal == <<"null", 0>>
IntVal(n) == <<"int", n>>
BoolVal(b) == <<"bool", IF b THEN 1 ELSE 0>>
StrVal(s) == <<"str", s>>
Native(name) == <<"native", name>>

\* Two's complement arithmetic of SQInteger.
Wrap(n) == ((n + 2^(IntBits - 1)) % 2^IntBits) - 2^(IntBits - 1)
IntMin == -(2^(IntBits - 1))
CIntMin == -(2^(CIntBits - 1))

Obj(m, x) == m.heap[x[2]]
TypeOf(m, x) ==
    CASE x[1] = "obj" -> Obj(m, x).type
      [] x[1] = "cat" -> "str"
      [] OTHER -> x[1]
IsType(m, x, types) == TypeOf(m, x) \in types

New(m, o) == <<[m EXCEPT !.heap = Append(@, o)], <<"obj", Len(m.heap) + 1>>>>
Update(m, x, o) == [m EXCEPT !.heap[x[2]] = o]

NewTable == [type |-> "table", slots |-> <<>>, del |-> NullVal]
NewArray(vals) == [type |-> "array", vals |-> vals]

With(f, k, x) == [j \in DOMAIN f \cup {k} |-> IF j = k THEN x ELSE f[j]]
Without(f, k) == [j \in DOMAIN f \ {k} |-> f[j]]

-----------------------------------------------------------------------------
(* Scalars                                                                 *)

\* SQVM::IsFalse: null, false and 0.
IsFalse(x) == x[1] \in {"null", "int", "bool"} /\ x[2] = 0
IsEqual(x, y) == x = y

\* C division truncates towards zero.
Trunc(a, b) ==
    LET q == (IF a < 0 THEN -a ELSE a) \div (IF b < 0 THEN -b ELSE b)
    IN  IF (a < 0) = (b < 0) THEN q ELSE -q

Ok(x) == [ok |-> "yes", val |-> x]
Err(msg) == [ok |-> "no", val |-> StrVal(msg)]
\* The processor traps: IntMin / -1.
Undefined == [ok |-> "undefined", val |-> NullVal]

\* SQVM::ARITH_OP on two integers.
IntArith(op, a, b) ==
    CASE op = "ADD" -> Ok(IntVal(Wrap(a + b)))
      [] op = "SUB" -> Ok(IntVal(Wrap(a - b)))
      [] op = "MUL" -> Ok(IntVal(Wrap(a * b)))
      [] op \in {"DIV", "MOD"} /\ b = 0 -> Err("division by zero")
      [] op = "DIV" /\ b # 0 ->
            IF b = -1 /\ a = CIntMin THEN Err("integer overflow")
            ELSE IF b = -1 /\ a = IntMin THEN Undefined ELSE Ok(IntVal(Trunc(a, b)))
      [] op = "MOD" /\ b # 0 ->
            IF b = -1 /\ a = CIntMin THEN Ok(IntVal(0))
            ELSE IF b = -1 /\ a = IntMin THEN Undefined ELSE Ok(IntVal(a - b * Trunc(a, b)))

\* The macros _ARITH_ and _ARITH_NOZERO, which the opcodes use instead.
FastArith(op, a, b) ==
    IF op = "DIV" /\ b = -1 THEN IF a = IntMin THEN Undefined ELSE Ok(IntVal(-a))
    ELSE IntArith(op, a, b)

BW_AND == 0
BW_OR == 2
BW_XOR == 3
BW_SHIFTL == 4
BW_SHIFTR == 5
BW_USHIFTR == 6

\* SQVM::BW_OP; C leaves a shift by the width or more undefined.
BitOp(op, a, b) ==
    LET ua == a % 2^IntBits
        ub == b % 2^IntBits
    IN  CASE op = BW_AND -> Ok(IntVal(Wrap(ua & ub)))
          [] op = BW_OR -> Ok(IntVal(Wrap(ua | ub)))
          [] op = BW_XOR -> Ok(IntVal(Wrap(ua ^^ ub)))
          [] op > BW_XOR /\ b \notin 0..(IntBits - 1) -> Undefined
          [] op = BW_SHIFTL /\ b \in 0..(IntBits - 1) -> Ok(IntVal(Wrap(a * 2^b)))
          [] op = BW_SHIFTR /\ b \in 0..(IntBits - 1) -> Ok(IntVal(a \div 2^b))
          [] OTHER -> Ok(IntVal(Wrap(ua \div 2^b)))

\* SQVM::ObjCmp without the metamethod; objects compare by address.  Names
\* have no order here, so no program compares two different strings.
Order(a, b) == IF a = b THEN 0 ELSE IF a < b THEN -1 ELSE 1
ObjCmp(m, x, y) ==
    CASE x = y -> Ok(IntVal(0))
      [] x # y /\ x[1] = y[1] /\ x[1] \in {"int", "bool", "obj"} -> Ok(IntVal(Order(x[2], y[2])))
      [] x[1] # y[1] /\ x[1] = "null" -> Ok(IntVal(-1))
      [] x[1] # y[1] /\ y[1] = "null" -> Ok(IntVal(1))
      [] OTHER -> Err("comparison")

CMP_G == 0
CMP_GE == 2
CMP_L == 3
CMP_LE == 4
CMP_3W == 5
\* SQVM::CMP_OP
CmpResult(op, r) ==
    CASE op = CMP_G -> BoolVal(r > 0)  [] op = CMP_GE -> BoolVal(r >= 0)
      [] op = CMP_L -> BoolVal(r < 0)  [] op = CMP_LE -> BoolVal(r <= 0)
      [] OTHER -> IntVal(r)

\* SQArray::Get and Set: an index outside the array is refused.
InArray(o, k) == k[1] = "int" /\ k[2] \in 0..(Len(o.vals) - 1)

-----------------------------------------------------------------------------
(* Delegates: a table has one when del is not null.                        *)

DelegateOf(m, x) == IF TypeOf(m, x) = "table" THEN Obj(m, x).del ELSE NullVal

\* x, its delegate, the delegate of that, ...
RECURSIVE Chain(_, _)
Chain(m, x) == IF DelegateOf(m, x) = NullVal THEN <<x>> ELSE <<x>> \o Chain(m, DelegateOf(m, x))

\* SQDelegable::SetDelegate refuses a cycle.
SetDelegate(m, x, mt) ==
    IF mt # NullVal /\ Contains(Chain(m, mt), x) THEN <<FALSE, m>>
    ELSE <<TRUE, Update(m, x, [Obj(m, x) EXCEPT !.del = mt])>>

-----------------------------------------------------------------------------
(* Classes.  members maps a key to [field, val, attrs]; metamethods are    *)
(* kept apart, as in the code.                                             *)

MetaNames == {"_add", "_sub", "_mul", "_div", "_modulo", "_unm", "_get", "_set", "_typeof",
              "_nexti", "_cmp", "_call", "_cloned", "_newslot", "_delslot", "_tostring",
              "_newmember", "_inherited"}

\* SQClass::SQClass: a derived class starts from copies of its base.
NewClass(m, base) ==
    IF base = NullVal
    THEN [type |-> "class", base |-> base, members |-> <<>>, mm |-> <<>>, locked |-> FALSE,
          attrs |-> NullVal]
    ELSE [Obj(m, base) EXCEPT !.base = base, !.locked = FALSE, !.attrs = NullVal]

\* SQClass::Lock
RECURSIVE Lock(_, _)
Lock(m, c) ==
    LET d == Update(m, c, [Obj(m, c) EXCEPT !.locked = TRUE])
    IN  IF Obj(m, c).base = NullVal THEN d ELSE Lock(d, Obj(m, c).base)

\* Mutant: the class is not locked.
CreateInstance_NoLock(m, c) ==
    LET mem == Obj(m, c).members
        fields == {k \in DOMAIN mem : mem[k].field}
    IN  New(m, [type |-> "instance", class |-> c, vals |-> [k \in fields |-> mem[k].val]])

\* SQClass::CreateInstance: the fields start with the default values.
CreateInstance(m, c) ==
    LET d == IF Obj(m, c).locked THEN m ELSE Lock(m, c)
        mem == Obj(m, c).members
        fields == {k \in DOMAIN mem : mem[k].field}
    IN  New(d, [type |-> "instance", class |-> c, vals |-> [k \in fields |-> mem[k].val]])

Constructor(m, c) ==
    LET mem == Obj(m, c).members
        k == StrVal("constructor")
    IN  IF k \in DOMAIN mem /\ ~mem[k].field THEN mem[k].val ELSE NullVal

IsFunction(m, x) == IsType(m, x, {"closure", "native"})

\* SQClass::NewSlot: the class afterwards, or a refusal.
ClassNewSlot(m, c, key, val, static) ==
    LET o == Obj(m, c)
        isStatic == IsFunction(m, val) \/ static
        known == key \in DOMAIN o.members
        member == [field |-> FALSE, val |-> val, attrs |-> NullVal]
        clone == New(m, [Obj(m, val) EXCEPT !.base = o.base])
        Add(d, x) == Update(d, c, [Obj(d, c) EXCEPT !.members = With(@, key, [x EXCEPT !.attrs =
                                        IF known THEN o.members[key].attrs ELSE NullVal])])
    IN  CASE o.locked /\ ~isStatic -> <<FALSE, m>>
          [] ~(o.locked /\ ~isStatic) /\ known /\ o.members[key].field ->
                <<TRUE, Add(m, [member EXCEPT !.field = TRUE])>>
          [] ~(known /\ o.members[key].field) /\ isStatic ->
                IF IsFunction(m, val) /\ key \in {StrVal(n) : n \in MetaNames}
                THEN <<TRUE, Update(m, c, [o EXCEPT !.mm = With(@, key[2], val)])>>
                ELSE IF o.base # NullVal /\ TypeOf(m, val) = "closure"
                     THEN <<TRUE, Add(clone[1], [member EXCEPT !.val = clone[2]])>>
                     ELSE <<TRUE, Add(m, member)>>
          [] OTHER -> <<TRUE, Add(m, [member EXCEPT !.field = TRUE])>>

\* SQInstance::InstanceOf
RECURSIVE DerivesFrom(_, _, _)
DerivesFrom(m, c, trg) ==
    c = trg \/ (Obj(m, c).base # NullVal /\ DerivesFrom(m, Obj(m, c).base, trg))

\* SQDelegable::GetMetaMethod and SQInstance::GetMetaMethod; null if none.
MetaMethod(m, x, name) ==
    CASE TypeOf(m, x) = "instance" ->
            LET mm == Obj(m, Obj(m, x).class).mm
            IN  IF name \in DOMAIN mm THEN mm[name] ELSE NullVal
      [] DelegateOf(m, x) # NullVal ->
            LET s == Obj(m, DelegateOf(m, x)).slots
            IN  IF StrVal(name) \in DOMAIN s THEN s[StrVal(name)] ELSE NullVal
      [] OTHER -> NullVal

-----------------------------------------------------------------------------
(* Members of one object, without delegation                               *)

\* What Get of SQTable, SQArray, SQInstance and SQClass finds.
HasSlot(m, x, key) ==
    CASE TypeOf(m, x) = "table" -> key \in DOMAIN Obj(m, x).slots
      [] TypeOf(m, x) = "array" -> InArray(Obj(m, x), key)
      [] TypeOf(m, x) = "instance" -> key \in DOMAIN Obj(m, Obj(m, x).class).members
      [] TypeOf(m, x) = "class" -> key \in DOMAIN Obj(m, x).members
      [] OTHER -> FALSE

SlotOf(m, x, key) ==
    CASE TypeOf(m, x) = "table" -> Obj(m, x).slots[key]
      [] TypeOf(m, x) = "array" -> Obj(m, x).vals[key[2] + 1]
      [] TypeOf(m, x) = "class" -> Obj(m, x).members[key].val
      [] OTHER -> LET mem == Obj(m, Obj(m, x).class).members[key]
                  IN  IF mem.field THEN Obj(m, x).vals[key] ELSE mem.val

\* Set of SQTable, SQArray and SQInstance changes an existing slot only.
CanSet(m, x, key) ==
    CASE TypeOf(m, x) = "table" -> key \in DOMAIN Obj(m, x).slots
      [] TypeOf(m, x) = "array" -> InArray(Obj(m, x), key)
      [] TypeOf(m, x) = "instance" -> key \in DOMAIN Obj(m, x).vals
      [] OTHER -> FALSE

SetSlot(m, x, key, val) ==
    CASE TypeOf(m, x) = "table" -> Update(m, x, [Obj(m, x) EXCEPT !.slots[key] = val])
      [] TypeOf(m, x) = "array" -> Update(m, x, [Obj(m, x) EXCEPT !.vals[key[2] + 1] = val])
      [] OTHER -> Update(m, x, [Obj(m, x) EXCEPT !.vals[key] = val])

TableNewSlot(m, x, key, val) == Update(m, x, [Obj(m, x) EXCEPT !.slots = With(@, key, val)])
TableRemove(m, x, key) == Update(m, x, [Obj(m, x) EXCEPT !.slots = Without(@, key)])
=============================================================================
