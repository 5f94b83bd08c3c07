-------------------------------- MODULE Values --------------------------------
(***************************************************************************)
(* ExpressionVisitor and VisitorBase (compiler.cpp): how an expression     *)
(* becomes typed LLVM values, loads, stores and calls.  A frame is an      *)
(* activation of CompileContext::compile(Expression), waiting for the      *)
(* operand that is compiled; expressions are chosen while they are         *)
(* visited.  The emitted code is straight and is executed as it is         *)
(* emitted, so a slot has a content and not only a type.                   *)
(*                                                                         *)
(* The fields a visitor does not set (Value a; has no initialiser) are     *)
(* "junk": a test of one may go either way, and what is then done with it  *)
(* is "undefined".  The numbers themselves are left out.                   *)
(***************************************************************************)
EXTENDS Naturals, Sequences

CONSTANTS
    Names,          \* identifiers of the program
    Functions,      \* those that are functions, declared before
    Sig,            \* calling convention and number of arguments of each
    Casts,          \* the casts, prefix operators and infix operators that the
    PreOps,         \* program is made of
    BinOps,
    ArgCounts,      \* and the numbers of arguments of its calls
    MaxNodes,       \* bound: expression nodes and statements of the function
    MaxNest         \* bound: nesting of an expression

(* "Arith", "Compare" and "Logic" stand for all the operators of their kind. *)
CastNames == {"int", "bool", "int*", "bool*"}
PreOpKinds == {"BitAnd", "Star", "Not", "Minus", "Plus", "Other"}
BinOpKinds == {"Arith", "Compare", "Logic", "Assign", "Other"}

ASSUME ValuesAssumption ==
    /\ Functions \subseteq Names
    /\ {"none", "null", "junk"} \cap Names = {}
    /\ Sig \in [Functions -> [cc : {"C", "Fast"}, arity : Nat]]
    /\ Casts \subseteq CastNames
    /\ PreOps \subseteq PreOpKinds
    /\ BinOps \subseteq BinOpKinds
    /\ ArgCounts \subseteq Nat
    /\ MaxNodes \in Nat
    /\ MaxNest \in Nat

VARIABLES
    slots,          \* the allocas, each with its declared type and its content
    scope,          \* local_var_addrs: the slot of a name, or 0
    stack,          \* the frames, innermost last
    out,            \* the Value of the expression compiled last
    mode,           \* "idle", "visit", "value" or how the function ended
    nodes,          \* expression nodes and statements so far
    hole,           \* history: a pointer changed its pointee: "cast", "assign"
    clash           \* history: an access or a call did not fit its target

vars == <<slots, scope, stack, out, mode, nodes, hole, clash>>

-----------------------------------------------------------------------------
(***************************************************************************)
(* A Type is the chain of its stored pointers: first the Type itself, then *)
(* what it points to, and so on.  end is the stored of the last one.       *)
(***************************************************************************)
LLVMTypes == {"int", "bool", "ptr"}         \* i64, i1 and the opaque pointer
Link == [t : LLVMTypes, func : Functions \cup {"null", "junk"}]
Type == [links : Seq(Link), end : {"null", "junk"}]

Plain(t) == [links |-> <<[t |-> t, func |-> "null"]>>, end |-> "null"]
PointerTo(type) ==
    [links |-> <<[t |-> "ptr", func |-> "null"]>> \o type.links, end |-> type.end]
Stored(type) == [links |-> Tail(type.links), end |-> type.end]
HasStored(type) == Len(type.links) > 1
FunctionUnstored(f) ==                          \* mutant of FunctionPointer
    [links |-> <<[t |-> "ptr", func |-> f]>>, end |-> "junk"]
FunctionPointer(f) == [links |-> <<[t |-> "ptr", func |-> f]>>, end |-> "null"]

(* What a register or a slot holds: to is the slot a pointer points to. *)
Dyn == [t : LLVMTypes, to : Nat, fn : Functions \cup {"none"}]
Bits(t) == [t |-> t, to |-> 0, fn |-> "none"]
At(slot) == [t |-> "ptr", to |-> slot, fn |-> "none"]

(***************************************************************************)
(* A Value is the chain of its addresses: first the value, then the Value  *)
(* its address field points to, and so on.  end is the last address field. *)
(***************************************************************************)
Cell == [v : Dyn, type : Type]
Value == [cells : Seq(Cell), end : {"null", "junk"}]

V(x) == x.cells[1].v
TypeOf(x) == x.cells[1].type
T(x) == TypeOf(x).links[1].t
Address(x) == [cells |-> Tail(x.cells), end |-> x.end]
HasAddress(x) == Len(x.cells) > 1

(* A visitor that sets v and type and leaves address as it found it. *)
Fresh(v, type) == [cells |-> <<[v |-> v, type |-> type]>>, end |-> "junk"]
Retyped(x, v, type) == [x EXCEPT !.cells[1] = [v |-> v, type |-> type]]

-----------------------------------------------------------------------------
Roles == {"statement", "cast", "preop", "mint", "left", "right", "callee", "arg"}
Kinds == {"Basic", "Return"}
Ops == {""} \cup Kinds \cup CastNames \cup PreOpKinds \cup BinOpKinds \cup Names
Frame == [role : Roles, op : Ops, held : Seq(Value)]
Modes == {"idle", "visit", "value", "returned", "error", "abort", "undefined"}

TypeOK ==
    /\ slots \in Seq([type : Type, content : Dyn])
    /\ scope \in [Names -> 0 .. Len(slots)]
    /\ stack \in Seq(Frame)
    /\ out \in Value /\ out.cells # << >>
    /\ mode \in Modes
    /\ nodes \in Nat
    /\ hole \in {"none", "cast", "assign"}
    /\ clash \in BOOLEAN
    /\ mode \in {"visit", "value"} => stack # << >>

Nothing == Fresh(Bits("int"), Plain("int"))

(* The entry of a function with at most one argument. *)
Init ==
    /\ \E args \in {<< >>} \cup {<<n>> : n \in Names} :
          /\ slots = [i \in DOMAIN args |->
                        [type |-> Plain("int"), content |-> Bits("int")]]
          /\ scope = [n \in Names |-> IF args = <<n>> THEN 1 ELSE 0]
    /\ stack = << >>
    /\ out = Nothing
    /\ mode = "idle"
    /\ nodes = 0
    /\ hole = "none"
    /\ clash = FALSE

Locals == {n \in Names : scope[n] # 0}
Top == stack[Len(stack)]
Outer == SubSeq(stack, 1, Len(stack) - 1)

Visiting == mode = "visit" /\ nodes < MaxNodes
Returned(role) == mode = "value" /\ Top.role = role

Result(x) == out' = x /\ mode' = "value"
Fail(why) == mode' = why /\ UNCHANGED <<slots, scope, stack, out, hole, clash>>

(* A check that may have looked at junk can also let the program go on. *)
Refuse(why, junk) == \E w \in {why} \cup (IF junk THEN {"undefined"} ELSE {}) : Fail(w)

(* Compile an operand, for a visitor that has the values held. *)
Compile(frames, role, op, held) ==
    /\ stack' = Append(frames, [role |-> role, op |-> op, held |-> held])
    /\ mode' = "visit"

-----------------------------------------------------------------------------
(* Memory. *)

Within(t, p) == p.to # 0 /\ slots[p.to].type.links[1].t = t
Loaded(t, p) == IF Within(t, p) THEN slots[p.to].content ELSE Bits(t)
Clashes(t, p) == clash' = (clash \/ ~Within(t, p))

Store(v, p) ==
    /\ slots' = IF Within(v.t, p) THEN [slots EXCEPT ![p.to].content = v] ELSE slots
    /\ Clashes(v.t, p)

-----------------------------------------------------------------------------
(* VisitorBase *)

Integer(t) == t \in {"int", "bool"}
Wider(s, t) == IF "int" \in {s, t} THEN "int" ELSE "bool"

types_exactly_equal(a, b) == a.links[1].t = b.links[1].t

(* Where the LLVM types differ, stored and func are looked at on both sides; *)
(* two integers are never compared that way.                                *)
Misread(a, b) ==
    LET stored(c) == IF HasStored(c) THEN "set" ELSE c.end
        func(c) == c.links[1].func
        junk(s, t) == "null" \notin {s, t} /\ "junk" \in {s, t}
    IN
    /\ ~types_exactly_equal(a, b)
    /\ ~(Integer(a.links[1].t) /\ Integer(b.links[1].t))
    /\ junk(stored(a), stored(b)) \/ junk(func(a), func(b))

(* Narrowing is not implicit. *)
AnyType(x, type) ==                             \* mutant of implicit_casts
    Integer(T(x)) /\ Integer(type.links[1].t) => Wider(T(x), type.links[1].t) = type.links[1].t
implicit_casts(x, type) ==
    LET t == type.links[1].t IN
    IF Integer(T(x)) /\ Integer(t) THEN Wider(T(x), t) = t ELSE types_exactly_equal(TypeOf(x), type)

(* An integer of another width is converted, and loses what else it was. *)
ConvertedUntyped(x, t) == Retyped(x, Bits(t), TypeOf(x))    \* mutant of Converted
Converted(x, t) ==
    IF Integer(T(x)) /\ Integer(t) /\ T(x) # t THEN Retyped(x, Bits(t), Plain(t)) ELSE x

-----------------------------------------------------------------------------
(* What is looked for: types that say the same of what they point to. *)
SameFunction(f, g) ==
    IF {f, g} \subseteq Functions THEN Sig[f] = Sig[g] ELSE f \notin Functions /\ g \notin Functions

SameType(a, b) ==
    /\ Len(a.links) = Len(b.links)
    /\ \A i \in DOMAIN a.links :
          /\ a.links[i].t = b.links[i].t
          /\ SameFunction(a.links[i].func, b.links[i].func)

-----------------------------------------------------------------------------
(* ExpressionVisitor: the entries. *)

(* Basic, Return, or the condition of an If. *)
Statement(kind) ==
    /\ mode = "idle" /\ nodes < MaxNodes
    /\ Compile(<< >>, "statement", kind, << >>)
    /\ nodes' = nodes + 1
    /\ UNCHANGED <<slots, scope, out, hole, clash>>

(* Only t is set of the type. *)
Num ==
    /\ Visiting
    /\ Result(Fresh(Bits("int"), [links |-> <<[t |-> "int", func |-> "junk"]>>, end |-> "junk"]))
    /\ nodes' = nodes + 1
    /\ UNCHANGED <<slots, scope, stack, hole, clash>>

Local(n) ==
    LET slot == slots[scope[n]] IN
    [cells |-> <<[v |-> slot.content, type |-> slot.type],
                 [v |-> At(scope[n]), type |-> PointerTo(slot.type)]>>,
     end |-> "null"]

GlobalConst(f) ==
    [cells |-> <<[v |-> [t |-> "ptr", to |-> 0, fn |-> f], type |-> FunctionPointer(f)]>>,
     end |-> "null"]

(* On the left of = a name that is no local is not visited but minted. *)
Var(n) ==
    /\ Visiting
    /\ Top.role = "left" /\ Top.op = "Assign" => n \in Locals
    /\ nodes' = nodes + 1
    /\ \/ /\ n \in Locals
          /\ Result(Local(n))
          /\ UNCHANGED <<slots, scope, stack, hole, clash>>
       \/ /\ n \in Functions \ Locals
          /\ Result(GlobalConst(n))
          /\ UNCHANGED <<slots, scope, stack, hole, clash>>
       \/ n \notin Locals \cup Functions /\ Fail("error")

Enter(role, op) ==
    /\ Visiting /\ Len(stack) <= MaxNest
    /\ Compile(stack, role, op, << >>)
    /\ nodes' = nodes + 1
    /\ UNCHANGED <<slots, scope, out, hole, clash>>

get_type(name) ==
    CASE name = "int" -> Plain("int")
      [] name = "bool" -> Plain("bool")
      [] name = "int*" -> PointerTo(Plain("int"))
      [] name = "bool*" -> PointerTo(Plain("bool"))

TypeCast(name) == Enter("cast", name)
PreOp(op) == Enter("preop", op)
BinOp(op) == Enter("left", op)
Call == ArgCounts # {} /\ Enter("callee", "")

Mint(n) ==
    /\ n \notin Locals
    /\ Enter("mint", n)

(* x[i], a cast to no known type. *)
Unimplemented ==
    /\ Visiting
    /\ nodes' = nodes + 1
    /\ Fail("abort")

-----------------------------------------------------------------------------
(* ExpressionVisitor: what follows the operands. *)

Yield(x) ==
    /\ Result(x)
    /\ stack' = Outer

(***************************************************************************)
(* exiplicit_cast: integers convert, and any pointer is taken for any      *)
(* other.  The address stays that of the value before.                     *)
(***************************************************************************)
FinishCast ==
    LET target == get_type(Top.op)
        t == target.links[1].t
    IN
    /\ Returned("cast")
    /\ UNCHANGED nodes
    /\ \/ /\ Integer(T(out)) /\ Integer(t)
          /\ Yield(Converted(out, t))
          /\ UNCHANGED <<slots, scope, hole, clash>>
       \/ /\ T(out) = "ptr" /\ t = "ptr"
          /\ Yield(Retyped(out, V(out), target))
          /\ hole' = IF SameType(TypeOf(out), target) THEN hole ELSE "cast"
          /\ UNCHANGED <<slots, scope, clash>>
       \/ Integer(T(out)) # Integer(t) /\ Refuse("error", Misread(TypeOf(out), target))

(* & of what has no address is a TODO, if the field says so. *)
AddressOf ==
    /\ Returned("preop") /\ Top.op = "BitAnd"
    /\ UNCHANGED nodes
    /\ \/ /\ HasAddress(out)
          /\ Yield(Address(out))
          /\ UNCHANGED <<slots, scope, hole, clash>>
       \/ ~HasAddress(out) /\ Refuse("abort", out.end = "junk")

(* The value loaded, with a copy of the pointer for its address. *)
Dereference ==
    LET type == Stored(TypeOf(out)) IN
    /\ Returned("preop") /\ Top.op = "Star" /\ T(out) = "ptr"
    /\ UNCHANGED nodes
    /\ \/ /\ HasStored(TypeOf(out))
          /\ Yield([cells |-> <<[v |-> Loaded(type.links[1].t, V(out)), type |-> type]>>
                                \o out.cells,
                    end |-> out.end])
          /\ Clashes(type.links[1].t, V(out))
          /\ UNCHANGED <<slots, scope, hole>>
       \/ ~HasStored(TypeOf(out)) /\ Refuse("abort", TypeOf(out).end = "junk")

FinishPreOp ==
    /\ Returned("preop") /\ Top.op # "BitAnd" /\ (Top.op = "Star" => Integer(T(out)))
    /\ UNCHANGED nodes
    /\ \/ /\ Top.op = "Not"
          /\ Yield(Fresh(Bits("bool"), Plain("bool")))
          /\ UNCHANGED <<slots, scope, hole, clash>>
       \/ /\ Top.op = "Minus" /\ Integer(T(out))
          /\ Yield(Fresh(V(out), TypeOf(out)))
          /\ UNCHANGED <<slots, scope, hole, clash>>
       \/ /\ Top.op = "Plus" /\ Integer(T(out))
          /\ Yield(out)
          /\ UNCHANGED <<slots, scope, hole, clash>>
       \/ Top.op \in {"Star", "Other"} /\ Fail("abort")
       \/ Top.op \in {"Minus", "Plus"} /\ ~Integer(T(out)) /\ Fail("abort")

(* x = e for a new x: a slot of the type of e, which x has from now on. *)
FinishMint ==
    /\ Returned("mint")
    /\ slots' = Append(slots, [type |-> TypeOf(out), content |-> V(out)])
    /\ scope' = [scope EXCEPT ![Top.op] = Len(slots) + 1]
    /\ Yield(out)
    /\ UNCHANGED <<nodes, hole, clash>>

RightOperand ==
    /\ Returned("left")
    /\ Compile(Outer, "right", Top.op, <<out>>)
    /\ UNCHANGED <<slots, scope, out, nodes, hole, clash>>

(***************************************************************************)
(* The left side has been compiled as a value; the store goes to its       *)
(* address.  The value of the assignment is the one stored, which keeps    *)
(* its own address.                                                        *)
(***************************************************************************)
FinishAssign ==
    LET a == Top.held[1]
        target == Stored(TypeOf(Address(a)))
        b == Converted(out, target.links[1].t)
    IN
    /\ Returned("right") /\ Top.op = "Assign"
    /\ UNCHANGED nodes
    /\ \/ /\ HasAddress(a) /\ implicit_casts(out, target)
          /\ Store(V(b), V(Address(a)))
          /\ hole' = IF {T(b), target.links[1].t} = {"ptr"} /\ ~SameType(TypeOf(b), target)
                     THEN "assign" ELSE hole
          /\ Yield(b)
          /\ UNCHANGED scope
       \/ /\ HasAddress(a) /\ ~implicit_casts(out, target)
          /\ Refuse("error", Misread(TypeOf(out), target))
       \/ ~HasAddress(a) /\ Refuse("abort", a.end = "junk")

(* Integers of two widths: the narrower is extended. *)
PromotedType(x, t) == IF T(x) = t THEN TypeOf(x) ELSE Plain(t)

FinishBinOp ==
    LET a == Top.held[1]
        t == Wider(T(a), T(out))
    IN
    /\ Returned("right") /\ Top.op # "Assign"
    /\ UNCHANGED nodes
    /\ \/ /\ Integer(T(a)) /\ Integer(T(out)) /\ Top.op = "Arith"
          /\ Yield(Fresh(Bits(t), PromotedType(a, t)))
          /\ UNCHANGED <<slots, scope, hole, clash>>
       \/ /\ Integer(T(a)) /\ Integer(T(out)) /\ Top.op \in {"Compare", "Logic"}
          /\ Yield(Fresh(Bits("bool"), Plain("bool")))
          /\ UNCHANGED <<slots, scope, hole, clash>>
       \/ ~(Integer(T(a)) /\ Integer(T(out)) /\ Top.op # "Other") /\ Fail("abort")

-----------------------------------------------------------------------------
(* Calls. *)

Callee(x) == TypeOf(x).links[1].func

(* The call is made through the pointer, as the type of the pointer says. *)
Calls(x) ==
    /\ Yield(Fresh(Bits("int"), Plain("int")))
    /\ clash' = (clash \/ ~SameFunction(V(x).fn, Callee(x)))
    /\ UNCHANGED <<slots, scope, hole>>

(* args is what the program has between the parentheses. *)
Arguments(args) ==
    LET f == Callee(out) IN
    /\ Returned("callee")
    /\ UNCHANGED nodes
    /\ \/ f \notin Functions /\ Refuse("error", f = "junk")   \* NotAFunction
       \/ f \in Functions /\ args # Sig[f].arity /\ Fail("error")     \* WrongArgCount
       \/ /\ f \in Functions /\ args = Sig[f].arity /\ args = 0
          /\ Calls(out)
       \/ /\ f \in Functions /\ args = Sig[f].arity /\ args # 0
          /\ Compile(Outer, "arg", "", <<out>>)
          /\ UNCHANGED <<slots, scope, out, hole, clash>>

(* An argument is an i64; nothing is converted. *)
FinishArg ==
    LET callee == Top.held[1]
        made == Len(Top.held)
        more == made < Sig[Callee(callee)].arity
    IN
    /\ Returned("arg")
    /\ UNCHANGED nodes
    /\ \/ /\ T(out) = "int" /\ more
          /\ Compile(Outer, "arg", "", Append(Top.held, out))
          /\ UNCHANGED <<slots, scope, out, hole, clash>>
       \/ T(out) = "int" /\ ~more /\ Calls(callee)
       \/ T(out) # "int" /\ Fail("error")

-----------------------------------------------------------------------------
(* Basic leaves what it computes; a return converts it to an i64. *)
FinishStatement ==
    /\ Returned("statement")
    /\ UNCHANGED <<nodes, slots, scope, hole, clash>>
    /\ \/ /\ Top.op = "Basic"
          /\ stack' = << >> /\ out' = Nothing /\ mode' = "idle"
       \/ /\ Top.op = "Return" /\ implicit_casts(out, Plain("int"))
          /\ stack' = << >> /\ out' = Nothing /\ mode' = "returned"
       \/ /\ Top.op = "Return" /\ ~implicit_casts(out, Plain("int"))
          /\ mode' = "error" /\ UNCHANGED <<stack, out>>

Done ==
    /\ mode \in {"idle", "visit"} => nodes = MaxNodes
    /\ mode # "value"
    /\ UNCHANGED vars

Next ==
    \/ \E kind \in Kinds : Statement(kind)
    \/ Num
    \/ \E n \in Names : Var(n) \/ Mint(n)
    \/ \E name \in Casts : TypeCast(name)
    \/ \E op \in PreOps : PreOp(op)
    \/ \E op \in BinOps : BinOp(op)
    \/ Call
    \/ Unimplemented
    \/ FinishCast \/ AddressOf \/ Dereference \/ FinishPreOp
    \/ FinishMint \/ RightOperand \/ FinishAssign \/ FinishBinOp
    \/ \E args \in ArgCounts : Arguments(args)
    \/ FinishArg
    \/ FinishStatement
    \/ Done

Spec == Init /\ [][Next]_vars

-----------------------------------------------------------------------------
(* Properties. *)

InPlay == {out} \cup UNION {{stack[i].held[j] : j \in DOMAIN stack[i].held} : i \in DOMAIN stack}

(***************************************************************************)
(* The visitors are type correct, and the type of a Value is the LLVM type *)
(* of its v, through every cast, promotion and load: the stores, loads and *)
(* calls emitted from it are formed with it, and LLVM asserts that they    *)
(* agree.                                                                  *)
(***************************************************************************)
TagsTrue ==
    /\ TypeOK
    /\ \A x \in InPlay : \A i \in DOMAIN x.cells :
          x.cells[i].v.t = x.cells[i].type.links[1].t

(***************************************************************************)
(* Unset fields stay with integers: a pointer always says what it points   *)
(* to, so the test before a load or a store through it can be relied on.   *)
(***************************************************************************)
CleanType(type) ==
    /\ \A i \in DOMAIN type.links :
          type.links[i].func = "junk" => Integer(type.links[i].t)
    /\ type.end = "junk" => Integer(type.links[Len(type.links)].t)

PointersAreSet ==
    /\ \A i \in DOMAIN slots : CleanType(slots[i].type)
    /\ \A x \in InPlay : \A i \in DOMAIN x.cells : CleanType(x.cells[i].type)

(***************************************************************************)
(* While no pointer has been cast to, or assigned from, a pointer to       *)
(* something else, the types tell the truth about memory: what a pointer   *)
(* type says it points to is what it points to, at any distance, and every *)
(* load, store and call fits its target.                                   *)
(***************************************************************************)
Conforms(v, type) ==
    LET link == type.links[1] IN
    /\ v.t = link.t
    /\ v.t = "ptr" =>
          IF link.func \in Functions
          THEN v.fn \in Functions /\ Sig[v.fn] = Sig[link.func]
          ELSE /\ HasStored(type)
               /\ v.to \in DOMAIN slots
               /\ SameType(slots[v.to].type, Stored(type))

WellTyped ==
    /\ \A i \in DOMAIN slots : Conforms(slots[i].content, slots[i].type)
    /\ \A x \in InPlay : \A i \in DOMAIN x.cells : Conforms(x.cells[i].v, x.cells[i].type)

TypesHold == hole = "none" => WellTyped /\ ~clash

-----------------------------------------------------------------------------
(* What the repository says of the checks, and the code does not do. *)

(***************************************************************************)
(* "'x' is a variable, not a function" (not_a_function.small:7): a call of *)
(* a variable that holds no function is caught.                            *)
(***************************************************************************)
NotAFunctionCaught == mode = "undefined" /\ Top.role = "callee" => ~HasAddress(out)

==============================================================================
