----------------------------- MODULE ValuesProof -----------------------------
(***************************************************************************)
(* Proofs about Values.tla, for every set of names, functions, signatures  *)
(* and operators and every bound: the visitors of expressions are type     *)
(* correct, pointers are never without what they point to, and the types   *)
(* of values agree with memory for as long as no pointer was cast to, or   *)
(* assigned from, another kind of pointer.                                 *)
(***************************************************************************)
EXTENDS Integers, Values, SequenceTheorems, TLAPS

-----------------------------------------------------------------------------
(* Facts about sequences. *)

(* Without its last element: pop_back. *)
LEMMA PopFacts ==
    ASSUME NEW S, NEW s \in Seq(S), s # << >>
    PROVE  /\ Len(s) \in Nat \ {0}
           /\ SubSeq(s, 1, Len(s) - 1) \in Seq(S)
           /\ Len(SubSeq(s, 1, Len(s) - 1)) = Len(s) - 1
           /\ \A i \in 1 .. Len(s) - 1 : SubSeq(s, 1, Len(s) - 1)[i] = s[i]
<1>1. Len(s) \in Nat \ {0}
  BY EmptySeq
<1> DEFINE n == Len(s) - 1
<1>2. n \in Nat /\ 1 \in Int
  BY <1>1
<1>3. \A i \in 1 .. n : s[i] \in S
  BY <1>1, ElementOfSeq
<1> HIDE DEF n
<1>4. /\ SubSeq(s, 1, n) \in Seq(S)
      /\ Len(SubSeq(s, 1, n)) = IF 1 <= n THEN n - 1 + 1 ELSE 0
      /\ \A i \in 1 .. n - 1 + 1 : SubSeq(s, 1, n)[i] = s[1 + i - 1]
  BY <1>2, <1>3, SubSeqProperties
<1>5. /\ Len(SubSeq(s, 1, n)) = n
      /\ \A i \in 1 .. n : SubSeq(s, 1, n)[i] = s[i]
  BY <1>2, <1>4
<1> QED
  BY <1>1, <1>4, <1>5 DEF n

USE ValuesAssumption

-----------------------------------------------------------------------------
(* The invariant, part by part; slots and hole are given as ss and h. *)

(* A type is a chain of plain pointers that ends with a number or with a   *)
(* function; only the end of one that ends with a number may be unset.     *)
Chain(type) ==
    LET n == Len(type.links) IN
    /\ type \in Type
    /\ n > 0
    /\ \A i \in 1 .. n - 1 : type.links[i] = [t |-> "ptr", func |-> "null"]
    /\ type.links[n].t = "ptr" <=> type.links[n].func \in Functions
    /\ type.end = "junk" => type.links[n].t # "ptr"

Slot == [type : Type, content : Dyn]

(* Conforms, for slots that are given. *)
Fits(v, type, ss) ==
    LET link == type.links[1] IN
    /\ v.t = link.t
    /\ v.t = "ptr" =>
          IF link.func \in Functions
          THEN v.fn \in Functions /\ Sig[v.fn] = Sig[link.func]
          ELSE /\ HasStored(type)
               /\ v.to \in DOMAIN ss
               /\ SameType(ss[v.to].type, Stored(type))

(* What holds of a register or slot and its type, whatever was cast, and   *)
(* what more holds while h says that nothing was.                          *)
Sound(v, type, ss, h) ==
    /\ v \in Dyn
    /\ Chain(type)
    /\ v.t = type.links[1].t
    /\ v.to \in 0 .. Len(ss)
    /\ h = "none" => Fits(v, type, ss)

(* Addresses are pointers to something that is stored. *)
SoundValue(x, ss, h) ==
    /\ x \in Value
    /\ x.cells # << >>
    /\ \A i \in DOMAIN x.cells : Sound(x.cells[i].v, x.cells[i].type, ss, h)
    /\ \A i \in 2 .. Len(x.cells) : HasStored(x.cells[i].type)

SoundFrame(f, ss, h) ==
    /\ f \in Frame
    /\ \A j \in DOMAIN f.held : SoundValue(f.held[j], ss, h)
    /\ f.role = "cast" => f.op \in CastNames
    /\ f.role = "mint" => f.op \in Names
    /\ f.role \in {"right", "arg"} => f.held # << >>
    /\ f.role = "arg" => Callee(f.held[1]) \in Functions

SoundSlots(ss, h) ==
    /\ ss \in Seq(Slot)
    /\ \A i \in DOMAIN ss : Sound(ss[i].content, ss[i].type, ss, h)

(* Under everything there is a statement. *)
SoundFrames(s, ss, h) ==
    /\ s \in Seq(Frame)
    /\ \A i \in DOMAIN s : SoundFrame(s[i], ss, h)
    /\ s # << >> => s[1].role = "statement"

Inductive ==
    /\ TypeOK
    /\ SoundSlots(slots, hole)
    /\ SoundValue(out, slots, hole)
    /\ SoundFrames(stack, slots, hole)
    /\ hole = "none" => clash = FALSE

-----------------------------------------------------------------------------
(* Types. *)

LEMMA NoFunction == {"null", "junk", "none"} \cap Functions = {}
OBVIOUS

LEMMA ChainLen ==
    ASSUME NEW type, Chain(type)
    PROVE  /\ type.links \in Seq(Link) /\ type.end \in {"null", "junk"}
           /\ Len(type.links) \in Nat \ {0}
           /\ DOMAIN type.links = 1 .. Len(type.links)
           /\ \A i \in DOMAIN type.links : type.links[i] \in Link
<1>1. type.links \in Seq(Link) /\ type.end \in {"null", "junk"} /\ Len(type.links) > 0
  BY DEF Chain, Type
<1> QED
  BY <1>1, ElementOfSeq, LenProperties

LEMMA ChainPlain ==
    ASSUME NEW t \in {"int", "bool"}
    PROVE  Chain(Plain(t)) /\ Plain(t).links[1].t = t /\ Plain(t).links[1].func = "null"
<1> DEFINE link == [t |-> t, func |-> "null"]
<1>1. link \in Link
  BY DEF Link, LLVMTypes
<1>2. <<link>> \in Seq(Link) /\ Len(<<link>>) = 1 /\ <<link>>[1] = link
  BY <1>1
<1>3. Plain(t) = [links |-> <<link>>, end |-> "null"]
  BY DEF Plain
<1> HIDE DEF link
<1>4. Plain(t) \in Type /\ Plain(t).links = <<link>> /\ Plain(t).end = "null"
  BY <1>2, <1>3 DEF Type
<1>5. link.t = t /\ link.func = "null"
  BY DEF link
<1> QED
  BY <1>2, <1>4, <1>5, NoFunction DEF Chain

LEMMA ChainFunction ==
    ASSUME NEW f \in Functions
    PROVE  /\ Chain(FunctionPointer(f))
           /\ FunctionPointer(f).links[1] = [t |-> "ptr", func |-> f]
           /\ Len(FunctionPointer(f).links) = 1
<1> DEFINE link == [t |-> "ptr", func |-> f]
<1>1. link \in Link
  BY DEF Link, LLVMTypes
<1>2. <<link>> \in Seq(Link) /\ Len(<<link>>) = 1 /\ <<link>>[1] = link
  BY <1>1
<1>3. FunctionPointer(f) = [links |-> <<link>>, end |-> "null"]
  BY DEF FunctionPointer
<1>5. link.t = "ptr" /\ link.func = f
  OBVIOUS
<1> HIDE DEF link
<1>4. /\ FunctionPointer(f) \in Type /\ FunctionPointer(f).links = <<link>>
      /\ FunctionPointer(f).end = "null"
  BY <1>2, <1>3 DEF Type
<1>6. Chain(FunctionPointer(f))
  BY <1>2, <1>4, <1>5, NoFunction DEF Chain
<1> QED
  BY <1>2, <1>4, <1>6 DEF link

LEMMA ChainPointerTo ==
    ASSUME NEW type, Chain(type)
    PROVE  /\ Chain(PointerTo(type))
           /\ PointerTo(type).links[1] = [t |-> "ptr", func |-> "null"]
           /\ HasStored(PointerTo(type))
           /\ Stored(PointerTo(type)) = type
<1> DEFINE link == [t |-> "ptr", func |-> "null"]
           n == Len(type.links)
           s == <<link>> \o type.links
<1>1. link \in Link /\ type.links \in Seq(Link) /\ n \in Nat \ {0}
  BY ChainLen DEF Link, LLVMTypes
<1>2. <<link>> \in Seq(Link) /\ Len(<<link>>) = 1 /\ <<link>>[1] = link
  BY <1>1
<1>3. /\ s \in Seq(Link) /\ Len(s) = n + 1
      /\ s[1] = link
      /\ \A i \in 2 .. n + 1 : s[i] = type.links[i - 1]
  BY <1>1
<1>4. s # << >> /\ Tail(s) = type.links
  <2>1. s # << >>
    BY <1>1, <1>3
  <2>2. Tail(s) \in Seq(Link) /\ Len(Tail(s)) = n /\ \A i \in 1 .. n : Tail(s)[i] = s[i + 1]
    BY <1>1, <1>3, <2>1, HeadTailProperties
  <2>3. \A i \in 1 .. n : Tail(s)[i] = type.links[i]
    BY <1>1, <1>3, <2>2
  <2> QED
    BY <1>1, <2>1, <2>2, <2>3, SeqEqual
<1>5. PointerTo(type) = [links |-> s, end |-> type.end]
  BY DEF PointerTo
<1>6. type = [links |-> type.links, end |-> type.end] /\ type.end \in {"null", "junk"}
  BY DEF Chain, Type
<1> HIDE DEF s
<1>7. PointerTo(type) \in Type /\ PointerTo(type).links = s /\ PointerTo(type).end = type.end
  BY <1>3, <1>5, <1>6 DEF Type
<1>8. Stored(PointerTo(type)) = type /\ HasStored(PointerTo(type))
  BY <1>1, <1>3, <1>4, <1>6, <1>7 DEF Stored, HasStored
<1>9. \A i \in 1 .. n : s[i] = link
  <2>1. \A i \in 1 .. n - 1 : type.links[i] = link
    BY DEF Chain
  <2> QED
    BY <1>1, <1>3, <2>1
<1>10. s[n + 1] = type.links[n]
  BY <1>1, <1>3
<1> QED
  BY <1>1, <1>3, <1>7, <1>8, <1>9, <1>10 DEF Chain

LEMMA ChainStored ==
    ASSUME NEW type, Chain(type), HasStored(type)
    PROVE  /\ Chain(Stored(type))
           /\ type.links[1] = [t |-> "ptr", func |-> "null"]
           /\ Len(Stored(type).links) = Len(type.links) - 1
           /\ \A i \in DOMAIN Stored(type).links : Stored(type).links[i] = type.links[i + 1]
<1> DEFINE n == Len(type.links)
           s == Tail(type.links)
<1>1. type.links \in Seq(Link) /\ n \in Nat /\ n > 1 /\ type.end \in {"null", "junk"}
  BY ChainLen DEF HasStored
<1>2. type.links # << >>
  BY <1>1
<1>3. s \in Seq(Link) /\ Len(s) = n - 1 /\ \A i \in 1 .. n - 1 : s[i] = type.links[i + 1]
  BY <1>1, <1>2, HeadTailProperties
<1>4. Stored(type) = [links |-> s, end |-> type.end]
  BY DEF Stored
<1>5. DOMAIN s = 1 .. n - 1
  BY <1>3, LenProperties
<1> HIDE DEF s
<1>6. Stored(type) \in Type /\ Stored(type).links = s /\ Stored(type).end = type.end
  BY <1>1, <1>3, <1>4 DEF Type
<1>7. \A i \in 1 .. n - 2 : s[i] = [t |-> "ptr", func |-> "null"]
  <2>1. \A i \in 1 .. n - 1 : type.links[i] = [t |-> "ptr", func |-> "null"]
    BY DEF Chain
  <2> QED
    BY <1>1, <1>3, <2>1
<1>8. s[n - 1] = type.links[n]
  BY <1>1, <1>3
<1>9. Chain(Stored(type))
  BY <1>1, <1>3, <1>6, <1>7, <1>8 DEF Chain
<1> QED
  BY <1>1, <1>3, <1>5, <1>6, <1>9 DEF Chain

LEMMA ChainCast ==
    ASSUME NEW name \in CastNames
    PROVE  Chain(get_type(name))
<1>1. Chain(Plain("int")) /\ Chain(Plain("bool"))
  BY ChainPlain
<1>2. Chain(PointerTo(Plain("int"))) /\ Chain(PointerTo(Plain("bool")))
  BY <1>1, ChainPointerTo
<1> QED
  BY <1>1, <1>2 DEF get_type, CastNames

(* Where it begins with a number a type is that number; where it begins    *)
(* with a pointer that is no function it has something stored.             *)
LEMMA ChainHead ==
    ASSUME NEW type, Chain(type)
    PROVE  /\ type.links[1] \in Link
           /\ type.links[1].t # "ptr" => Len(type.links) = 1
           /\ type.links[1].func \in Functions => type.links[1].t = "ptr" /\ Len(type.links) = 1
           /\ type.links[1].t = "ptr" /\ type.links[1].func \notin Functions => HasStored(type)
<1> DEFINE n == Len(type.links)
           link == type.links[1]
<1>1. n \in Nat \ {0} /\ link \in Link
  BY ChainLen
<1>2. n = 1 => (link.t = "ptr" <=> link.func \in Functions)
  BY DEF Chain
<1>3. n > 1 => link.t = "ptr" /\ link.func = "null"
  BY <1>1 DEF Chain
<1>5. "null" \notin Functions
  BY NoFunction
<1>6. HasStored(type) <=> n > 1
  BY DEF HasStored
<1> HIDE DEF n, link
<1>4. n = 1 \/ n > 1
  BY <1>1
<1>7. /\ link.t # "ptr" => n = 1
      /\ link.func \in Functions => link.t = "ptr" /\ n = 1
      /\ link.t = "ptr" /\ link.func \notin Functions => HasStored(type)
  BY <1>2, <1>3, <1>4, <1>5, <1>6
<1> QED
  BY <1>1, <1>7 DEF n, link

LEMMA CleanChain ==
    ASSUME NEW type, Chain(type)
    PROVE  CleanType(type)
<1>1. /\ Len(type.links) \in Nat \ {0} /\ DOMAIN type.links = 1 .. Len(type.links)
      /\ \A i \in DOMAIN type.links : type.links[i] \in Link
  BY ChainLen
<1>2. ASSUME NEW i \in DOMAIN type.links, type.links[i].func = "junk"
      PROVE  type.links[i].t # "ptr"
  <2>1. i = Len(type.links)
    <3>1. i \in 1 .. Len(type.links) - 1 => type.links[i].func = "null"
      BY DEF Chain
    <3> QED
      BY <1>1, <1>2, <3>1
  <2> QED
    BY <1>2, <2>1, NoFunction DEF Chain
<1>3. \A link \in Link : link.t # "ptr" => Integer(link.t)
  BY DEF Link, LLVMTypes, Integer
<1> QED
  BY <1>1, <1>2, <1>3 DEF CleanType, Chain

-----------------------------------------------------------------------------
(* Types that say the same. *)

LEMMA SameIsReflexive ==
    ASSUME NEW a
    PROVE  SameType(a, a)
BY DEF SameType, SameFunction

LEMMA SameIsSymmetric ==
    ASSUME NEW a, Chain(a), NEW b, Chain(b), SameType(a, b)
    PROVE  SameType(b, a)
<1>1. DOMAIN a.links = 1 .. Len(a.links) /\ DOMAIN b.links = 1 .. Len(b.links)
  BY ChainLen
<1>2. Len(a.links) = Len(b.links)
  BY DEF SameType
<1>3. ASSUME NEW i \in DOMAIN b.links
      PROVE  b.links[i].t = a.links[i].t /\ SameFunction(b.links[i].func, a.links[i].func)
  BY <1>1, <1>2, <1>3 DEF SameType, SameFunction
<1> QED
  BY <1>2, <1>3 DEF SameType

LEMMA SameIsTransitive ==
    ASSUME NEW a, Chain(a), NEW b, Chain(b), NEW c, Chain(c), SameType(a, b), SameType(b, c)
    PROVE  SameType(a, c)
<1>1. /\ DOMAIN a.links = 1 .. Len(a.links)
      /\ DOMAIN b.links = 1 .. Len(b.links)
      /\ DOMAIN c.links = 1 .. Len(c.links)
  BY ChainLen
<1>2. Len(a.links) = Len(b.links) /\ Len(b.links) = Len(c.links)
  BY DEF SameType
<1>3. ASSUME NEW i \in DOMAIN a.links
      PROVE  a.links[i].t = c.links[i].t /\ SameFunction(a.links[i].func, c.links[i].func)
  <2>1. a.links[i].t = b.links[i].t /\ SameFunction(a.links[i].func, b.links[i].func)
    BY <1>3 DEF SameType
  <2>2. b.links[i].t = c.links[i].t /\ SameFunction(b.links[i].func, c.links[i].func)
    BY <1>1, <1>2, <1>3 DEF SameType
  <2> QED
    BY <2>1, <2>2 DEF SameFunction
<1> QED
  BY <1>2, <1>3 DEF SameType

LEMMA SameHead ==
    ASSUME NEW a, Chain(a), NEW b, Chain(b), SameType(a, b)
    PROVE  /\ a.links[1].t = b.links[1].t
           /\ SameFunction(a.links[1].func, b.links[1].func)
           /\ HasStored(a) => HasStored(b) /\ SameType(Stored(a), Stored(b))
<1>1. /\ DOMAIN a.links = 1 .. Len(a.links) /\ Len(a.links) \in Nat \ {0}
      /\ DOMAIN b.links = 1 .. Len(b.links)
  BY ChainLen
<1>2. Len(a.links) = Len(b.links)
  BY DEF SameType
<1>3. \A i \in DOMAIN a.links :
         a.links[i].t = b.links[i].t /\ SameFunction(a.links[i].func, b.links[i].func)
  BY DEF SameType
<1>4. 1 \in DOMAIN a.links
  <2> DEFINE n == Len(a.links)
  <2> HIDE DEF n
  <2> QED
    BY <1>1 DEF n
<1>5. ASSUME HasStored(a)
      PROVE  HasStored(b) /\ SameType(Stored(a), Stored(b))
  <2>1. HasStored(b)
    BY <1>2, <1>5 DEF HasStored
  <2>2. /\ Len(Stored(a).links) = Len(a.links) - 1
        /\ \A i \in DOMAIN Stored(a).links : Stored(a).links[i] = a.links[i + 1]
        /\ Len(Stored(b).links) = Len(b.links) - 1
        /\ \A i \in DOMAIN Stored(b).links : Stored(b).links[i] = b.links[i + 1]
        /\ Chain(Stored(a)) /\ Chain(Stored(b))
    BY <1>5, <2>1, ChainStored
  <2>3. /\ DOMAIN Stored(a).links = 1 .. Len(a.links) - 1
        /\ DOMAIN Stored(b).links = 1 .. Len(b.links) - 1
    BY <2>2, ChainLen
  <2>4. ASSUME NEW i \in DOMAIN Stored(a).links
        PROVE  /\ Stored(a).links[i].t = Stored(b).links[i].t
               /\ SameFunction(Stored(a).links[i].func, Stored(b).links[i].func)
    <3>1. i + 1 \in DOMAIN a.links
      BY <1>1, <2>3, <2>4
    <3>2. Stored(a).links[i] = a.links[i + 1] /\ Stored(b).links[i] = b.links[i + 1]
      BY <1>2, <2>2, <2>3, <2>4
    <3> QED
      BY <1>3, <3>1, <3>2
  <2> QED
    BY <1>2, <2>1, <2>2, <2>4 DEF SameType
<1> QED
  BY <1>3, <1>4, <1>5

-----------------------------------------------------------------------------
(* Registers. *)

(* A number fits every slot of its width. *)
LEMMA SoundBits ==
    ASSUME NEW type, Chain(type), NEW t \in {"int", "bool"}, type.links[1].t = t,
           NEW ss \in Seq(Slot), NEW h
    PROVE  Sound(Bits(t), type, ss, h)
<1>1. Bits(t) \in Dyn /\ Bits(t).t = t /\ Bits(t).to = 0
  BY DEF Bits, Dyn, LLVMTypes
<1>2. Len(ss) \in Nat
  BY LenProperties
<1> QED
  BY <1>1, <1>2 DEF Sound, Fits

(* What fits a type fits every type that says the same. *)
LEMMA SoundSame ==
    ASSUME NEW ss, NEW h, SoundSlots(ss, h), NEW v, NEW a, NEW b, Chain(b),
           Sound(v, a, ss, h), a.links[1].t = b.links[1].t,
           h = "none" => SameType(a, b) \/ b.links[1].t # "ptr"
    PROVE  Sound(v, b, ss, h)
<1>1. Chain(a)
  BY DEF Sound
<1>2. ASSUME h = "none", b.links[1].t = "ptr"
      PROVE  Fits(v, b, ss)
  <2>1. Fits(v, a, ss) /\ SameType(a, b)
    BY <1>2 DEF Sound
  <2>2. /\ SameFunction(a.links[1].func, b.links[1].func)
        /\ HasStored(a) => HasStored(b) /\ SameType(Stored(a), Stored(b))
    BY <1>1, <2>1, SameHead
  <2>3. CASE b.links[1].func \in Functions
    BY <1>2, <2>1, <2>2, <2>3 DEF Fits, SameFunction
  <2>4. CASE b.links[1].func \notin Functions
    <3>1. a.links[1].func \notin Functions
      BY <2>2, <2>4 DEF SameFunction
    <3>2. HasStored(a) /\ v.to \in DOMAIN ss /\ SameType(ss[v.to].type, Stored(a))
      BY <1>2, <2>1, <3>1 DEF Fits
    <3>3. Chain(ss[v.to].type) /\ Chain(Stored(a)) /\ Chain(Stored(b))
      BY <1>1, <2>2, <3>2, ChainStored DEF SoundSlots, Sound
    <3>4. SameType(ss[v.to].type, Stored(b))
      BY <2>2, <3>2, <3>3, SameIsTransitive
    <3> QED
      BY <1>2, <2>1, <2>2, <2>4, <3>2, <3>4 DEF Fits
  <2> QED
    BY <2>3, <2>4
<1>3. h = "none" => Fits(v, b, ss)
  BY <1>2 DEF Sound, Fits
<1> QED
  BY <1>3 DEF Sound

(* Slots are never taken away or given another type. *)
SlotsGrow(ss, more) ==
    /\ Len(ss) <= Len(more)
    /\ \A i \in DOMAIN ss : more[i].type = ss[i].type

LEMMA SoundStays ==
    ASSUME NEW ss \in Seq(Slot), NEW more \in Seq(Slot), SlotsGrow(ss, more),
           NEW h, NEW k, k = "none" => h = "none",
           NEW v, NEW type, Sound(v, type, ss, h)
    PROVE  Sound(v, type, more, k)
<1>1. /\ Len(ss) \in Nat /\ DOMAIN ss = 1 .. Len(ss)
      /\ Len(more) \in Nat /\ DOMAIN more = 1 .. Len(more)
  BY LenProperties
<1>2. Len(ss) <= Len(more)
  BY DEF SlotsGrow
<1>3. Fits(v, type, ss) => Fits(v, type, more)
  <2>1. v.to \in DOMAIN ss => v.to \in DOMAIN more /\ more[v.to].type = ss[v.to].type
    BY <1>1, <1>2 DEF SlotsGrow
  <2> QED
    BY <2>1 DEF Fits
<1>4. v.to \in 0 .. Len(more)
  BY <1>1, <1>2 DEF Sound
<1> QED
  BY <1>3, <1>4 DEF Sound

LEMMA ValueStays ==
    ASSUME NEW ss \in Seq(Slot), NEW more \in Seq(Slot), SlotsGrow(ss, more),
           NEW h, NEW k, k = "none" => h = "none",
           NEW x, SoundValue(x, ss, h)
    PROVE  SoundValue(x, more, k)
BY SoundStays DEF SoundValue

LEMMA FrameStays ==
    ASSUME NEW ss \in Seq(Slot), NEW more \in Seq(Slot), SlotsGrow(ss, more),
           NEW h, NEW k, k = "none" => h = "none",
           NEW f, SoundFrame(f, ss, h)
    PROVE  SoundFrame(f, more, k)
BY ValueStays DEF SoundFrame

LEMMA FramesStay ==
    ASSUME NEW ss \in Seq(Slot), NEW more \in Seq(Slot), SlotsGrow(ss, more),
           NEW h, NEW k, k = "none" => h = "none",
           NEW s, SoundFrames(s, ss, h)
    PROVE  SoundFrames(s, more, k)
BY FrameStays DEF SoundFrames

-----------------------------------------------------------------------------
(* Values. *)

LEMMA ValueFacts ==
    ASSUME NEW ss, NEW h, NEW x, SoundValue(x, ss, h)
    PROVE  /\ x.cells \in Seq(Cell) /\ x.end \in {"null", "junk"}
           /\ Len(x.cells) \in Nat \ {0} /\ DOMAIN x.cells = 1 .. Len(x.cells)
           /\ 1 \in DOMAIN x.cells
           /\ x.cells[1] = [v |-> V(x), type |-> TypeOf(x)]
           /\ Sound(V(x), TypeOf(x), ss, h)
           /\ Chain(TypeOf(x)) /\ V(x) \in Dyn /\ V(x).t = T(x)
           /\ T(x) \in LLVMTypes /\ (T(x) = "ptr" <=> ~Integer(T(x)))
<1> DEFINE n == Len(x.cells)
<1>1. x \in Value /\ x.cells # << >>
  BY DEF SoundValue
<1>2. x.cells \in Seq(Cell) /\ x.end \in {"null", "junk"}
  BY <1>1 DEF Value
<1>3. n \in Nat /\ n # 0 /\ DOMAIN x.cells = 1 .. n
  BY <1>1, <1>2, LenProperties, EmptySeq
<1> HIDE DEF n
<1>4. n \in Nat \ {0} /\ 1 \in DOMAIN x.cells
  BY <1>3
<1>5. x.cells[1] \in Cell
  BY <1>2, <1>3, <1>4, ElementOfSeq DEF n
<1>6. Sound(V(x), TypeOf(x), ss, h)
  BY <1>4 DEF SoundValue, V, TypeOf
<1>7. x.cells[1] = [v |-> V(x), type |-> TypeOf(x)]
  BY <1>5 DEF Cell, V, TypeOf
<1>8. Chain(TypeOf(x)) /\ V(x) \in Dyn /\ V(x).t = T(x)
  BY <1>6 DEF Sound, T
<1>9. T(x) \in LLVMTypes
  BY <1>8 DEF Dyn
<1> QED
  BY <1>2, <1>3, <1>4, <1>6, <1>7, <1>8, <1>9 DEF n, LLVMTypes, Integer

LEMMA CellTyped ==
    ASSUME NEW ss, NEW h, NEW v, NEW type, Sound(v, type, ss, h)
    PROVE  [v |-> v, type |-> type] \in Cell
BY DEF Sound, Chain, Cell

LEMMA SoundFresh ==
    ASSUME NEW ss, NEW h, NEW v, NEW type, Sound(v, type, ss, h)
    PROVE  /\ SoundValue(Fresh(v, type), ss, h)
           /\ V(Fresh(v, type)) = v /\ TypeOf(Fresh(v, type)) = type
<1> DEFINE c == [v |-> v, type |-> type]
<1>1. c \in Cell /\ c.v = v /\ c.type = type
  BY CellTyped
<1>2. Fresh(v, type) = [cells |-> <<c>>, end |-> "junk"]
  BY DEF Fresh
<1> HIDE DEF c
<1>3. <<c>> \in Seq(Cell) /\ <<c>> # << >> /\ DOMAIN <<c>> = {1} /\ <<c>>[1] = c /\ Len(<<c>>) = 1
  BY <1>1
<1>4. Fresh(v, type) \in Value /\ Fresh(v, type).cells = <<c>>
  BY <1>2, <1>3 DEF Value
<1> QED
  BY <1>1, <1>3, <1>4 DEF SoundValue, V, TypeOf

(* A cast leaves the addresses alone. *)
LEMMA SoundRetyped ==
    ASSUME NEW ss, NEW h, NEW x, SoundValue(x, ss, h), NEW v, NEW type, Sound(v, type, ss, h)
    PROVE  /\ SoundValue(Retyped(x, v, type), ss, h)
           /\ V(Retyped(x, v, type)) = v /\ TypeOf(Retyped(x, v, type)) = type
<1> DEFINE c == [v |-> v, type |-> type]
           s == [x.cells EXCEPT ![1] = c]
<1>1. c \in Cell /\ c.v = v /\ c.type = type
  BY CellTyped
<1>2. /\ x.cells \in Seq(Cell) /\ 1 \in DOMAIN x.cells /\ x.end \in {"null", "junk"}
      /\ DOMAIN x.cells = 1 .. Len(x.cells) /\ Len(x.cells) \in Nat \ {0}
  BY ValueFacts
<1>0. x = [cells |-> x.cells, end |-> x.end]
  BY DEF SoundValue, Value
<1>3. Retyped(x, v, type) = [cells |-> s, end |-> x.end]
  BY <1>0 DEF Retyped
<1> HIDE DEF c
<1>4. /\ s \in Seq(Cell) /\ Len(s) = Len(x.cells) /\ DOMAIN s = DOMAIN x.cells
      /\ s[1] = c /\ \A i \in 2 .. Len(x.cells) : s[i] = x.cells[i]
  BY <1>1, <1>2, ExceptSeq
<1>5. s # << >>
  BY <1>2, <1>4, EmptySeq
<1> HIDE DEF s
<1>6. /\ Retyped(x, v, type) \in Value
      /\ Retyped(x, v, type).cells = s /\ Retyped(x, v, type).end = x.end
  BY <1>2, <1>3, <1>4 DEF Value
<1>7. \A i \in DOMAIN s : Sound(s[i].v, s[i].type, ss, h)
  <2> TAKE i \in DOMAIN s
  <2>1. i = 1 \/ i \in 2 .. Len(x.cells)
    BY <1>2, <1>4
  <2>2. CASE i = 1
    BY <1>1, <1>4, <2>2
  <2>3. CASE i \in 2 .. Len(x.cells)
    BY <1>2, <1>4, <2>3 DEF SoundValue
  <2> QED
    BY <2>1, <2>2, <2>3
<1>8. \A i \in 2 .. Len(s) : HasStored(s[i].type)
  BY <1>4 DEF SoundValue
<1> QED
  BY <1>1, <1>4, <1>5, <1>6, <1>7, <1>8 DEF SoundValue, V, TypeOf

(* An integer cast keeps a value sound and gives it the width asked for. *)
LEMMA SoundConverted ==
    ASSUME NEW ss \in Seq(Slot), NEW h, NEW x, SoundValue(x, ss, h), NEW t
    PROVE  /\ SoundValue(Converted(x, t), ss, h)
           /\ Integer(T(x)) /\ Integer(t) => T(Converted(x, t)) = t
           /\ ~(Integer(T(x)) /\ Integer(t)) => Converted(x, t) = x
<1>1. CASE Integer(T(x)) /\ Integer(t) /\ T(x) # t
  <2>1. Chain(Plain(t)) /\ Plain(t).links[1].t = t
    BY <1>1, ChainPlain DEF Integer
  <2>2. Sound(Bits(t), Plain(t), ss, h)
    BY <1>1, <2>1, SoundBits DEF Integer
  <2>3. SoundValue(Retyped(x, Bits(t), Plain(t)), ss, h) /\ T(Retyped(x, Bits(t), Plain(t))) = t
    BY <2>1, <2>2, SoundRetyped DEF T
  <2> QED
    BY <1>1, <2>3 DEF Converted
<1>2. CASE ~(Integer(T(x)) /\ Integer(t) /\ T(x) # t)
  BY <1>2 DEF Converted
<1> QED
  BY <1>1, <1>2

(* The pointer a value was loaded through is a value, too, to be stored through. *)
LEMMA SoundAddress ==
    ASSUME NEW ss, NEW h, NEW x, SoundValue(x, ss, h), HasAddress(x)
    PROVE  SoundValue(Address(x), ss, h) /\ HasStored(TypeOf(Address(x)))
<1> DEFINE n == Len(x.cells)
           s == Tail(x.cells)
<1> HIDE DEF s
<1>1. x.cells \in Seq(Cell) /\ n \in Nat \ {0} /\ x.end \in {"null", "junk"} /\ DOMAIN x.cells = 1 .. n
  BY ValueFacts
<1> USE DEF s
<1>2. n > 1 /\ x.cells # << >>
  BY <1>1, EmptySeq DEF HasAddress, SoundValue
<1>3. s \in Seq(Cell) /\ Len(s) = n - 1 /\ \A i \in 1 .. n - 1 : s[i] = x.cells[i + 1]
  BY <1>1, <1>2, HeadTailProperties
<1>4. Address(x) = [cells |-> s, end |-> x.end]
  BY DEF Address
<1>5. DOMAIN s = 1 .. n - 1
  BY <1>3, LenProperties
<1>6. /\ \A i \in 1 .. n : Sound(x.cells[i].v, x.cells[i].type, ss, h)
      /\ \A i \in 2 .. n : HasStored(x.cells[i].type)
  BY <1>1 DEF SoundValue
<1> HIDE DEF s, n
<1>7. Address(x) \in Value /\ Address(x).cells = s
  BY <1>1, <1>3, <1>4 DEF Value
<1>8. s # << >>
  BY <1>1, <1>2, <1>3, EmptySeq
<1>9. \A i \in DOMAIN s : Sound(s[i].v, s[i].type, ss, h) /\ HasStored(s[i].type)
  BY <1>1, <1>3, <1>5, <1>6
<1>10. 1 \in DOMAIN s /\ \A i \in 2 .. Len(s) : i \in DOMAIN s
  BY <1>1, <1>2, <1>3, <1>5
<1> QED
  BY <1>7, <1>8, <1>9, <1>10 DEF SoundValue, TypeOf

(* A value with the pointer it was loaded through behind it. *)
LEMMA SoundLoaded ==
    ASSUME NEW ss, NEW h, NEW x, SoundValue(x, ss, h), HasStored(TypeOf(x)),
           NEW v, NEW type, Sound(v, type, ss, h)
    PROVE  SoundValue([cells |-> <<[v |-> v, type |-> type]>> \o x.cells, end |-> x.end], ss, h)
<1> DEFINE c == [v |-> v, type |-> type]
           n == Len(x.cells)
           s == <<c>> \o x.cells
           y == [cells |-> s, end |-> x.end]
<1> HIDE DEF s, y
<1>1. c \in Cell /\ c.v = v /\ c.type = type
  BY CellTyped
<1>2. /\ x.cells \in Seq(Cell) /\ n \in Nat \ {0} /\ x.end \in {"null", "junk"} /\ DOMAIN x.cells = 1 .. n
      /\ x.cells[1].type = TypeOf(x)
  BY ValueFacts DEF TypeOf
<1> HIDE DEF c
<1> USE DEF s, y
<1>3. /\ s \in Seq(Cell) /\ Len(s) = n + 1 /\ DOMAIN s = 1 .. n + 1
      /\ s[1] = c /\ \A i \in 2 .. n + 1 : s[i] = x.cells[i - 1]
  BY <1>1, <1>2
<1>4. /\ \A i \in 1 .. n : Sound(x.cells[i].v, x.cells[i].type, ss, h)
      /\ \A i \in 2 .. n : HasStored(x.cells[i].type)
  BY <1>2 DEF SoundValue
<1>5. y.cells = s /\ y.end = x.end
  OBVIOUS
<1> HIDE DEF s, n
<1>6. y \in Value
  BY <1>2, <1>3 DEF Value
<1> HIDE DEF y
<1>7. s # << >>
  BY <1>2, <1>3, EmptySeq
<1>8. \A i \in DOMAIN s : Sound(s[i].v, s[i].type, ss, h)
  <2> TAKE i \in DOMAIN s
  <2>1. i = 1 \/ (i \in 2 .. n + 1 /\ i - 1 \in 1 .. n)
    BY <1>2, <1>3
  <2>2. CASE i = 1
    BY <1>1, <1>3, <2>2
  <2>3. CASE i \in 2 .. n + 1 /\ i - 1 \in 1 .. n
    BY <1>3, <1>4, <2>3
  <2> QED
    BY <2>1, <2>2, <2>3
<1>9. \A i \in 2 .. Len(s) : HasStored(s[i].type)
  <2> SUFFICES ASSUME NEW i \in 2 .. n + 1
               PROVE  HasStored(s[i].type)
    BY <1>3
  <2>1. i = 2 \/ i - 1 \in 2 .. n
    BY <1>2
  <2>2. s[i] = x.cells[i - 1]
    BY <1>3
  <2>3. CASE i = 2
    BY <1>2, <2>2, <2>3
  <2> QED
    BY <1>4, <2>1, <2>2, <2>3
<1>10. SoundValue(y, ss, h)
  BY <1>5, <1>6, <1>7, <1>8, <1>9 DEF SoundValue
<1> QED
  BY <1>10 DEF y, s, c

-----------------------------------------------------------------------------
(* The state. *)

LEMMA StateFacts ==
    ASSUME Inductive
    PROVE  /\ slots \in Seq(Slot) /\ Len(slots) \in Nat /\ DOMAIN slots = 1 .. Len(slots)
           /\ scope \in [Names -> 0 .. Len(slots)]
           /\ nodes \in Nat /\ nodes + 1 \in Nat
           /\ SlotsGrow(slots, slots)
           /\ Chain(TypeOf(out)) /\ T(out) \in LLVMTypes /\ (T(out) = "ptr" <=> ~Integer(T(out)))
<1>1. slots \in Seq(Slot) /\ scope \in [Names -> 0 .. Len(slots)] /\ nodes \in Nat
  BY DEF Inductive, TypeOK, SoundSlots
<1>2. Len(slots) \in Nat /\ DOMAIN slots = 1 .. Len(slots)
  BY <1>1, LenProperties
<1>3. SlotsGrow(slots, slots)
  BY <1>2 DEF SlotsGrow
<1>4. SoundValue(out, slots, hole)
  BY DEF Inductive
<1>5. Chain(TypeOf(out)) /\ T(out) \in LLVMTypes /\ (T(out) = "ptr" <=> ~Integer(T(out)))
  BY <1>4, ValueFacts
<1> QED
  BY <1>1, <1>2, <1>3, <1>5

(* Above the statement there is something to go on with. *)
LEMMA TopFacts ==
    ASSUME Inductive, mode = "value"
    PROVE  /\ SoundFrame(Top, slots, hole)
           /\ Top.role # "statement" => Outer # << >> /\ SoundFrames(Outer, slots, hole)
<1>1. stack \in Seq(Frame) /\ stack # << >> /\ stack[1].role = "statement"
  BY DEF Inductive, TypeOK, SoundFrames
<1>2. /\ Len(stack) \in Nat \ {0} /\ DOMAIN stack = 1 .. Len(stack)
      /\ Outer \in Seq(Frame) /\ Len(Outer) = Len(stack) - 1
      /\ \A i \in 1 .. Len(stack) - 1 : Outer[i] = stack[i]
  BY <1>1, PopFacts, LenProperties DEF Outer
<1> DEFINE n == Len(stack)
<1> HIDE DEF n
<1>3. n \in Nat \ {0} /\ n \in 1 .. n
  BY <1>2 DEF n
<1>4. SoundFrame(Top, slots, hole)
  BY <1>2, <1>3 DEF Inductive, SoundFrames, Top, n
<1>5. ASSUME Top.role # "statement"
      PROVE  Outer # << >> /\ SoundFrames(Outer, slots, hole)
  <2>1. n # 1
    BY <1>1, <1>5 DEF Top, n
  <2>2. Len(Outer) = n - 1 /\ n - 1 \in Nat \ {0} /\ DOMAIN Outer = 1 .. n - 1
    BY <1>2, <1>3, <2>1, LenProperties DEF n
  <2>3. Outer # << >>
    BY <2>2, EmptySeq
  <2>4. 1 \in 1 .. n - 1 /\ \A i \in 1 .. n - 1 : i \in DOMAIN stack /\ Outer[i] = stack[i]
    BY <1>2, <1>3, <2>2 DEF n
  <2> QED
    BY <1>1, <1>2, <2>2, <2>3, <2>4 DEF Inductive, SoundFrames
<1> QED
  BY <1>4, <1>5

LEMMA PushedFrame ==
    ASSUME NEW ss, NEW h, NEW s, SoundFrames(s, ss, h), NEW f, SoundFrame(f, ss, h),
           s = << >> => f.role = "statement"
    PROVE  SoundFrames(Append(s, f), ss, h) /\ Append(s, f) # << >>
<1>1. s \in Seq(Frame) /\ f \in Frame
  BY DEF SoundFrames, SoundFrame
<1>2. /\ Append(s, f) \in Seq(Frame) /\ Append(s, f) # << >>
      /\ Len(s) \in Nat /\ DOMAIN s = 1 .. Len(s)
      /\ DOMAIN Append(s, f) = 1 .. Len(s) + 1
      /\ \A i \in 1 .. Len(s) : Append(s, f)[i] = s[i]
      /\ Append(s, f)[Len(s) + 1] = f
  BY <1>1, AppendProperties, LenProperties
<1>3. \A i \in 1 .. Len(s) + 1 : SoundFrame(Append(s, f)[i], ss, h)
  <2> TAKE i \in 1 .. Len(s) + 1
  <2>1. i \in 1 .. Len(s) \/ i = Len(s) + 1
    BY <1>2
  <2> QED
    BY <1>2, <2>1 DEF SoundFrames
<1>4. Append(s, f)[1].role = "statement"
  <2>1. CASE s = << >>
    BY <1>2, <2>1
  <2>2. CASE s # << >>
    <3>1. Len(s) \in Nat \ {0}
      BY <1>1, <2>2, EmptySeq
    <3> DEFINE n == Len(s)
    <3> HIDE DEF n
    <3>2. 1 \in 1 .. n
      BY <3>1 DEF n
    <3> QED
      BY <1>2, <2>2, <3>2 DEF SoundFrames, n
  <2> QED
    BY <2>1, <2>2
<1> QED
  BY <1>2, <1>3, <1>4 DEF SoundFrames

(* A step that emits no store and makes no slot. *)
LEMMA QuietStep ==
    ASSUME Inductive, UNCHANGED <<slots, scope, hole>>,
           nodes' \in Nat, mode' \in Modes,
           SoundValue(out', slots, hole), SoundFrames(stack', slots, hole),
           mode' \in {"visit", "value"} => stack' # << >>,
           clash' \in BOOLEAN, hole = "none" => clash' = FALSE
    PROVE  Inductive'
<1>1. out' \in Value /\ out'.cells # << >>
  BY DEF SoundValue
<1>2. stack' \in Seq(Frame)
  BY DEF SoundFrames
<1>3. TypeOK'
  BY <1>1, <1>2 DEF Inductive, TypeOK
<1> QED
  BY <1>3 DEF Inductive

LEMMA FailStep ==
    ASSUME Inductive, NEW why, Fail(why), why \in Modes \ {"visit", "value"}, nodes' \in Nat
    PROVE  Inductive'
BY QuietStep DEF Fail, Inductive, TypeOK

LEMMA RefuseStep ==
    ASSUME Inductive, NEW why \in {"error", "abort"}, NEW junk, Refuse(why, junk), nodes' \in Nat
    PROVE  Inductive'
<1>1. Fail(why) \/ Fail("undefined")
  BY DEF Refuse
<1> QED
  BY <1>1, FailStep DEF Modes

LEMMA YieldStep ==
    ASSUME Inductive, mode = "value", Top.role # "statement", NEW x, Yield(x),
           SoundValue(x, slots, hole), UNCHANGED <<slots, scope, hole>>, nodes' = nodes,
           clash' \in BOOLEAN, hole = "none" => clash' = FALSE
    PROVE  Inductive'
<1>1. Outer # << >> /\ SoundFrames(Outer, slots, hole)
  BY TopFacts
<1>2. out' = x /\ mode' = "value" /\ stack' = Outer
  BY DEF Yield, Result
<1>3. nodes' \in Nat
  BY StateFacts
<1> QED
  BY <1>1, <1>2, <1>3, QuietStep DEF Modes

LEMMA CompileStep ==
    ASSUME Inductive, NEW s, SoundFrames(s, slots, hole),
           NEW role \in Roles, NEW op, NEW held, Compile(s, role, op, held),
           s = << >> => role = "statement",
           SoundFrame([role |-> role, op |-> op, held |-> held], slots, hole),
           UNCHANGED <<slots, scope, out, hole, clash>>, nodes' \in Nat
    PROVE  Inductive'
<1> DEFINE f == [role |-> role, op |-> op, held |-> held]
<1>1. stack' = Append(s, f) /\ mode' = "visit"
  BY DEF Compile
<1>2. f.role = role
  OBVIOUS
<1> HIDE DEF f
<1>3. SoundFrames(Append(s, f), slots, hole) /\ Append(s, f) # << >>
  BY <1>2, PushedFrame DEF f
<1>4. SoundValue(out, slots, hole) /\ clash \in BOOLEAN /\ (hole = "none" => clash = FALSE)
  BY DEF Inductive, TypeOK
<1> QED
  BY <1>1, <1>3, <1>4, QuietStep DEF Modes

(* A frame that holds nothing yet. *)
LEMMA EmptyFrame ==
    ASSUME NEW ss, NEW h, NEW role \in Roles \ {"right", "arg"}, NEW op \in Ops,
           role = "cast" => op \in CastNames, role = "mint" => op \in Names
    PROVE  SoundFrame([role |-> role, op |-> op, held |-> << >>], ss, h)
<1> DEFINE f == [role |-> role, op |-> op, held |-> << >>]
<1>1. << >> \in Seq(Value) /\ DOMAIN << >> = {}
  BY EmptySeq, LenProperties
<1>2. f \in Frame /\ f.role = role /\ f.op = op /\ f.held = << >>
  BY <1>1 DEF Frame
<1> HIDE DEF f
<1>3. SoundFrame(f, ss, h)
  BY <1>1, <1>2 DEF SoundFrame
<1> QED
  BY <1>3 DEF f

-----------------------------------------------------------------------------
(* The visitors before their operands. *)

LEMMA InitSound ==
    ASSUME Init
    PROVE  Inductive
<1>1. PICK args \in {<< >>} \cup {<<n>> : n \in Names} :
         /\ slots = [i \in DOMAIN args |-> [type |-> Plain("int"), content |-> Bits("int")]]
         /\ scope = [n \in Names |-> IF args = <<n>> THEN 1 ELSE 0]
  BY DEF Init
<1> DEFINE slot == [type |-> Plain("int"), content |-> Bits("int")]
           len == IF args = << >> THEN 0 ELSE 1
<1>2. Chain(Plain("int")) /\ Plain("int").links[1].t = "int"
  BY ChainPlain
<1>3. Bits("int") \in Dyn
  BY DEF Bits, Dyn, LLVMTypes
<1>4. slot \in Slot /\ slot.type = Plain("int") /\ slot.content = Bits("int")
  BY <1>2, <1>3 DEF Slot, Chain
<1>5. DOMAIN args = 1 .. len /\ len \in {0, 1}
  <2>1. CASE args = << >>
    BY <2>1, EmptySeq, LenProperties
  <2>2. CASE \E n \in Names : args = <<n>>
    <3>1. PICK n \in Names : args = <<n>>
      BY <2>2
    <3>2. DOMAIN args = {1} /\ args # << >>
      BY <3>1
    <3> QED
      BY <3>2
  <2> QED
    BY <1>1, <2>1, <2>2
<1> HIDE DEF slot
<1>6. slots = [i \in 1 .. len |-> slot]
  BY <1>1, <1>5 DEF slot
<1>7. slots \in Seq(Slot) /\ Len(slots) = len /\ \A i \in DOMAIN slots : slots[i] = slot
  BY <1>4, <1>5, <1>6
<1>8. \A ss \in Seq(Slot) : Sound(Bits("int"), Plain("int"), ss, hole)
  BY <1>2, SoundBits
<1>9. SoundSlots(slots, hole)
  BY <1>4, <1>7, <1>8 DEF SoundSlots
<1>10. SoundValue(out, slots, hole)
  BY <1>7, <1>8, SoundFresh DEF Init, Nothing
<1>11. stack = << >> /\ SoundFrames(stack, slots, hole)
  BY EmptySeq, LenProperties DEF Init, SoundFrames
<1>12. scope \in [Names -> 0 .. Len(slots)]
  <2>1. \A n \in Names : <<n>> # << >>
    OBVIOUS
  <2>2. \A n \in Names : args = <<n>> => len = 1
    <3>1. args # << >> => len = 1
      OBVIOUS
    <3> HIDE DEF len
    <3> QED
      BY <2>1, <3>1
  <2> HIDE DEF len
  <2>3. 0 \in 0 .. len /\ (len = 1 => 1 \in 0 .. len)
    BY <1>5
  <2>4. \A n \in Names : scope[n] = 0 \/ (scope[n] = 1 /\ len = 1)
    BY <1>1, <2>2
  <2> QED
    BY <1>1, <1>7, <2>3, <2>4
<1>13. TypeOK
  BY <1>7, <1>10, <1>11, <1>12 DEF TypeOK, Init, Modes, SoundValue, SoundFrames, Slot
<1> QED
  BY <1>9, <1>10, <1>11, <1>13 DEF Inductive, Init

LEMMA StatementSound ==
    ASSUME Inductive, NEW kind \in Kinds, Statement(kind)
    PROVE  Inductive'
<1>1. SoundFrames(<< >>, slots, hole)
  BY EmptySeq, LenProperties DEF SoundFrames
<1>2. "statement" \in Roles \ {"right", "arg"} /\ kind \in Ops
  BY DEF Roles, Ops
<1>3. SoundFrame([role |-> "statement", op |-> kind, held |-> << >>], slots, hole)
  BY <1>2, EmptyFrame
<1>4. nodes' \in Nat
  BY StateFacts DEF Statement
<1> QED
  BY <1>1, <1>2, <1>3, <1>4, CompileStep DEF Statement

LEMMA EnterSound ==
    ASSUME Inductive, NEW role \in Roles \ {"statement", "right", "arg"},
           NEW op \in Ops, Enter(role, op),
           role = "cast" => op \in CastNames, role = "mint" => op \in Names
    PROVE  Inductive'
<1>1. SoundFrames(stack, slots, hole) /\ stack # << >>
  BY DEF Enter, Visiting, Inductive, TypeOK
<1>2. SoundFrame([role |-> role, op |-> op, held |-> << >>], slots, hole)
  BY EmptyFrame
<1>3. nodes' \in Nat
  BY StateFacts DEF Enter
<1> QED
  BY <1>1, <1>2, <1>3, CompileStep DEF Enter

(* A value that is there from the start. *)
LEMMA EntrySound ==
    ASSUME Inductive, mode = "visit", NEW x, Result(x), SoundValue(x, slots, hole),
           nodes' = nodes + 1, UNCHANGED <<slots, scope, stack, hole, clash>>
    PROVE  Inductive'
<1>1. SoundFrames(stack, slots, hole) /\ stack # << >>
  BY DEF Inductive, TypeOK
<1>2. nodes' \in Nat
  BY StateFacts
<1>3. clash' \in BOOLEAN /\ (hole = "none" => clash' = FALSE)
  BY DEF Inductive, TypeOK
<1> QED
  BY <1>1, <1>2, <1>3, QuietStep DEF Result, Modes

LEMMA NumSound ==
    ASSUME Inductive, Num
    PROVE  Inductive'
<1> DEFINE link == [t |-> "int", func |-> "junk"]
           type == [links |-> <<link>>, end |-> "junk"]
<1>1. link \in Link /\ link.t = "int" /\ link.func = "junk"
  BY DEF Link, LLVMTypes
<1> HIDE DEF link
<1>2. <<link>> \in Seq(Link) /\ Len(<<link>>) = 1 /\ <<link>>[1] = link
  BY <1>1
<1>3. type \in Type /\ type.links = <<link>>
  BY <1>2 DEF Type
<1> HIDE DEF type
<1>4. Chain(type) /\ type.links[1].t = "int"
  BY <1>1, <1>2, <1>3, NoFunction DEF Chain
<1>5. Sound(Bits("int"), type, slots, hole)
  BY <1>4, SoundBits, StateFacts
<1>6. SoundValue(Fresh(Bits("int"), type), slots, hole)
  BY <1>5, SoundFresh
<1>7. Result(Fresh(Bits("int"), type))
  BY DEF Num, type, link
<1> QED
  BY <1>6, <1>7, EntrySound DEF Num, Visiting

(* A pointer to a slot, of the type of the slot. *)
LEMMA SlotAddress ==
    ASSUME NEW ss, NEW h, SoundSlots(ss, h), NEW slot \in DOMAIN ss
    PROVE  /\ Sound(At(slot), PointerTo(ss[slot].type), ss, h)
           /\ HasStored(PointerTo(ss[slot].type))
<1> DEFINE type == ss[slot].type
<1>1. Chain(type)
  BY DEF SoundSlots, Sound
<1>2. /\ Chain(PointerTo(type)) /\ HasStored(PointerTo(type)) /\ Stored(PointerTo(type)) = type
      /\ PointerTo(type).links[1].t = "ptr" /\ PointerTo(type).links[1].func = "null"
  BY <1>1, ChainPointerTo
<1>3. ss \in Seq(Slot) /\ Len(ss) \in Nat /\ DOMAIN ss = 1 .. Len(ss)
  BY LenProperties DEF SoundSlots
<1>4. At(slot) \in Dyn /\ At(slot).t = "ptr" /\ At(slot).to = slot
  BY <1>3 DEF At, Dyn, LLVMTypes
<1>5. SameType(type, type)
  BY SameIsReflexive
<1> HIDE DEF type
<1>6. Fits(At(slot), PointerTo(type), ss)
  BY <1>2, <1>4, <1>5, NoFunction DEF Fits, type
<1>7. slot \in 0 .. Len(ss)
  BY <1>3
<1> QED
  BY <1>2, <1>4, <1>6, <1>7 DEF Sound, type

LEMMA LocalSound ==
    ASSUME Inductive, NEW n \in Names, n \in Locals
    PROVE  SoundValue(Local(n), slots, hole)
<1> DEFINE slot == slots[scope[n]]
           a == [v |-> slot.content, type |-> slot.type]
           b == [v |-> At(scope[n]), type |-> PointerTo(slot.type)]
<1>1. scope[n] \in DOMAIN slots
  BY StateFacts DEF Locals
<1>2. /\ Sound(slot.content, slot.type, slots, hole)
      /\ Sound(At(scope[n]), PointerTo(slot.type), slots, hole)
      /\ HasStored(PointerTo(slot.type))
  BY <1>1, SlotAddress DEF Inductive, SoundSlots
<1>3. a \in Cell /\ b \in Cell
  BY <1>2, CellTyped
<1>4. /\ Sound(a.v, a.type, slots, hole)
      /\ Sound(b.v, b.type, slots, hole)
      /\ HasStored(b.type)
  BY <1>2
<1>5. Local(n) = [cells |-> <<a, b>>, end |-> "null"]
  BY DEF Local
<1> HIDE DEF a, b
<1>6. <<a, b>> \in Seq(Cell) /\ <<a, b>> # << >> /\ Len(<<a, b>>) = 2
      /\ DOMAIN <<a, b>> = 1 .. 2 /\ <<a, b>>[1] = a /\ <<a, b>>[2] = b
  BY <1>3
<1>7. Local(n) \in Value /\ Local(n).cells = <<a, b>>
  BY <1>5, <1>6 DEF Value
<1>8. \A i \in 1 .. 2 : i = 1 \/ i = 2
  OBVIOUS
<1> QED
  BY <1>4, <1>6, <1>7, <1>8 DEF SoundValue

LEMMA FunctionSound ==
    ASSUME Inductive, NEW f \in Functions
    PROVE  SoundValue(GlobalConst(f), slots, hole)
<1> DEFINE v == [t |-> "ptr", to |-> 0, fn |-> f]
           c == [v |-> v, type |-> FunctionPointer(f)]
<1>1. v \in Dyn /\ v.t = "ptr" /\ v.to = 0 /\ v.fn = f
  BY DEF Dyn, LLVMTypes
<1> HIDE DEF v
<1>2. Chain(FunctionPointer(f)) /\ FunctionPointer(f).links[1] = [t |-> "ptr", func |-> f]
  BY ChainFunction
<1>3. Fits(v, FunctionPointer(f), slots)
  BY <1>1, <1>2 DEF Fits
<1>4. Sound(v, FunctionPointer(f), slots, hole)
  BY <1>1, <1>2, <1>3, StateFacts DEF Sound
<1>5. c \in Cell
  BY <1>4, CellTyped
<1>6. GlobalConst(f) = [cells |-> <<c>>, end |-> "null"]
  BY DEF GlobalConst, v
<1>7. c.v = v /\ c.type = FunctionPointer(f)
  OBVIOUS
<1> HIDE DEF c
<1>8. <<c>> \in Seq(Cell) /\ <<c>> # << >> /\ DOMAIN <<c>> = {1} /\ <<c>>[1] = c /\ Len(<<c>>) = 1
  BY <1>5
<1>9. GlobalConst(f) \in Value /\ GlobalConst(f).cells = <<c>>
  BY <1>6, <1>8 DEF Value
<1> QED
  BY <1>4, <1>7, <1>8, <1>9 DEF SoundValue

LEMMA VarSound ==
    ASSUME Inductive, NEW n \in Names, Var(n)
    PROVE  Inductive'
<1>1. mode = "visit" /\ nodes' = nodes + 1
  BY DEF Var, Visiting
<1>2. CASE n \in Locals /\ Result(Local(n)) /\ UNCHANGED <<slots, scope, stack, hole, clash>>
  BY <1>1, <1>2, LocalSound, EntrySound
<1>3. CASE n \in Functions /\ Result(GlobalConst(n)) /\ UNCHANGED <<slots, scope, stack, hole, clash>>
  BY <1>1, <1>3, FunctionSound, EntrySound
<1>4. CASE Fail("error")
  BY <1>1, <1>4, FailStep, StateFacts DEF Modes
<1> QED
  BY <1>2, <1>3, <1>4 DEF Var

-----------------------------------------------------------------------------
(* Memory. *)

LEMMA SlotsStay ==
    ASSUME NEW ss, NEW h, SoundSlots(ss, h), NEW k, k = "none" => h = "none"
    PROVE  SoundSlots(ss, k)
<1>1. ss \in Seq(Slot) /\ SlotsGrow(ss, ss)
  BY LenProperties DEF SoundSlots, SlotsGrow
<1> QED
  BY <1>1, SoundStays DEF SoundSlots

(* A pointer that no cast has made points to what its type says. *)
LEMMA TargetFacts ==
    ASSUME Inductive, NEW p, NEW type, Sound(p, type, slots, hole), HasStored(type)
    PROVE  /\ Chain(Stored(type))
           /\ hole = "none" =>
                /\ p.to \in DOMAIN slots
                /\ Chain(slots[p.to].type)
                /\ SameType(slots[p.to].type, Stored(type))
                /\ Within(Stored(type).links[1].t, p)
<1>1. Chain(type)
  BY DEF Sound
<1>2. Chain(Stored(type)) /\ type.links[1].t = "ptr" /\ type.links[1].func \notin Functions
  BY <1>1, ChainStored, NoFunction
<1>3. ASSUME hole = "none"
      PROVE  p.to \in DOMAIN slots /\ SameType(slots[p.to].type, Stored(type))
  BY <1>2, <1>3 DEF Sound, Fits
<1>4. ASSUME hole = "none"
      PROVE  Chain(slots[p.to].type) /\ p.to # 0
  BY <1>3, <1>4, StateFacts DEF Inductive, SoundSlots, Sound
<1>5. ASSUME hole = "none"
      PROVE  Within(Stored(type).links[1].t, p)
  BY <1>2, <1>3, <1>4, <1>5, SameHead DEF Within
<1> QED
  BY <1>2, <1>3, <1>4, <1>5

LEMMA SoundLoad ==
    ASSUME Inductive, NEW p, NEW type, Sound(p, type, slots, hole), HasStored(type)
    PROVE  Sound(Loaded(Stored(type).links[1].t, p), Stored(type), slots, hole)
<1> DEFINE t == Stored(type).links[1].t
<1>1. Chain(Stored(type)) /\ (hole = "none" => Within(t, p) /\ SameType(slots[p.to].type, Stored(type)))
  BY TargetFacts
<1>2. t \in LLVMTypes
  BY <1>1, ChainHead DEF Link
<1> HIDE DEF t
<1>3. CASE Within(t, p)
  <2>1. p.to \in DOMAIN slots
    BY <1>3, StateFacts DEF Sound, Within
  <2>2. Sound(slots[p.to].content, slots[p.to].type, slots, hole)
    BY <2>1 DEF Inductive, SoundSlots
  <2>3. slots[p.to].type.links[1].t = Stored(type).links[1].t
    BY <1>3 DEF Within, t
  <2>4. Sound(slots[p.to].content, Stored(type), slots, hole)
    BY <1>1, <2>2, <2>3, SoundSame DEF Inductive
  <2> QED
    BY <1>3, <2>4 DEF Loaded, t
<1>4. CASE ~Within(t, p)
  <2>1. Bits(t) \in Dyn /\ Bits(t).t = t /\ Bits(t).to = 0
    BY <1>2 DEF Bits, Dyn
  <2>2. hole # "none"
    BY <1>1, <1>4
  <2>3. Sound(Bits(t), Stored(type), slots, hole)
    BY <1>1, <2>1, <2>2, StateFacts DEF Sound, t
  <2> QED
    BY <1>4, <2>3 DEF Loaded, t
<1> QED
  BY <1>3, <1>4

(* A step that may fill a slot, make one, or lose a pointee. *)
LEMMA ChangeStep ==
    ASSUME Inductive, mode = "value", Top.role # "statement", NEW x, Yield(x),
           SlotsGrow(slots, slots'), SoundSlots(slots', hole'), hole' = "none" => hole = "none",
           SoundValue(x, slots', hole'), hole' \in {"none", "cast", "assign"},
           scope' \in [Names -> 0 .. Len(slots')], nodes' = nodes,
           clash' \in BOOLEAN, hole' = "none" => clash' = FALSE
    PROVE  Inductive'
<1>1. Outer # << >> /\ SoundFrames(Outer, slots, hole)
  BY TopFacts
<1>2. out' = x /\ mode' = "value" /\ stack' = Outer
  BY DEF Yield, Result
<1>3. slots \in Seq(Slot) /\ slots' \in Seq(Slot) /\ nodes' \in Nat
  BY StateFacts DEF SoundSlots
<1>4. SoundFrames(Outer, slots', hole')
  BY <1>1, <1>3, FramesStay
<1>5. out' \in Value /\ out'.cells # << >> /\ stack' \in Seq(Frame)
  BY <1>2, <1>4 DEF SoundValue, SoundFrames
<1>6. TypeOK'
  BY <1>1, <1>2, <1>3, <1>5 DEF TypeOK, Modes, Slot
<1> QED
  BY <1>2, <1>4, <1>6 DEF Inductive

-----------------------------------------------------------------------------
(* The visitors after their operands. *)

LEMMA OutSound ==
    ASSUME Inductive
    PROVE  /\ SoundValue(out, slots, hole)
           /\ Sound(V(out), TypeOf(out), slots, hole)
           /\ slots \in Seq(Slot) /\ SoundSlots(slots, hole)
           /\ clash \in BOOLEAN /\ (hole = "none" => clash = FALSE)
           /\ hole \in {"none", "cast", "assign"}
<1>1. SoundValue(out, slots, hole)
  BY DEF Inductive
<1> QED
  BY <1>1, ValueFacts, StateFacts DEF Inductive, TypeOK

LEMMA CastSound ==
    ASSUME Inductive, FinishCast
    PROVE  Inductive'
<1> DEFINE target == get_type(Top.op)
           t == target.links[1].t
<1>1. mode = "value" /\ Top.role = "cast" /\ nodes' = nodes
  BY DEF FinishCast, Returned
<1>2. Chain(target)
  BY <1>1, TopFacts, ChainCast DEF SoundFrame
<1> HIDE DEF target
<1>3. CASE Yield(Converted(out, t)) /\ UNCHANGED <<slots, scope, hole, clash>>
  BY <1>1, <1>3, OutSound, SoundConverted, YieldStep
<1>4. CASE /\ T(out) = "ptr" /\ t = "ptr"
           /\ Yield(Retyped(out, V(out), target))
           /\ hole' = IF SameType(TypeOf(out), target) THEN hole ELSE "cast"
           /\ UNCHANGED <<slots, scope, clash>>
  <2>1. hole' = "none" => hole = "none" /\ SameType(TypeOf(out), target)
    BY <1>4
  <2>2. SoundSlots(slots, hole') /\ SoundValue(out, slots, hole') /\ SlotsGrow(slots, slots)
    BY <2>1, OutSound, StateFacts, SlotsStay, ValueStays
  <2>3. Sound(V(out), TypeOf(out), slots, hole')
    BY <2>2, ValueFacts
  <2>4. Sound(V(out), target, slots, hole')
    BY <1>2, <1>4, <2>1, <2>2, <2>3, SoundSame DEF T
  <2>5. SoundValue(Retyped(out, V(out), target), slots, hole')
    BY <2>2, <2>4, SoundRetyped
  <2>6. hole' \in {"none", "cast", "assign"} /\ clash' \in BOOLEAN /\ (hole' = "none" => clash' = FALSE)
    BY <1>4, <2>1, OutSound
  <2>7. scope' \in [Names -> 0 .. Len(slots')]
    BY <1>4, StateFacts
  <2> QED
    BY <1>1, <1>4, <2>1, <2>2, <2>5, <2>6, <2>7, ChangeStep
<1>5. CASE \E junk \in BOOLEAN : Refuse("error", junk)
  BY <1>1, <1>5, RefuseStep, StateFacts
<1>6. Misread(TypeOf(out), target) \in BOOLEAN
  BY DEF Misread
<1> QED
  BY <1>3, <1>4, <1>5, <1>6 DEF FinishCast, target

LEMMA AddressOfSound ==
    ASSUME Inductive, AddressOf
    PROVE  Inductive'
<1>1. mode = "value" /\ Top.role = "preop" /\ nodes' = nodes
  BY DEF AddressOf, Returned
<1>2. CASE HasAddress(out) /\ Yield(Address(out)) /\ UNCHANGED <<slots, scope, hole, clash>>
  BY <1>1, <1>2, OutSound, SoundAddress, YieldStep
<1>3. CASE \E junk \in BOOLEAN : Refuse("abort", junk)
  BY <1>1, <1>3, RefuseStep, StateFacts
<1> QED
  BY <1>2, <1>3 DEF AddressOf

LEMMA DereferenceSound ==
    ASSUME Inductive, Dereference
    PROVE  Inductive'
<1> DEFINE type == Stored(TypeOf(out))
           v == Loaded(type.links[1].t, V(out))
           x == [cells |-> <<[v |-> v, type |-> type]>> \o out.cells, end |-> out.end]
<1>1. mode = "value" /\ Top.role = "preop" /\ nodes' = nodes
  BY DEF Dereference, Returned
<1>2. CASE /\ HasStored(TypeOf(out)) /\ Yield(x) /\ Clashes(type.links[1].t, V(out))
           /\ UNCHANGED <<slots, scope, hole>>
  <2>1. Sound(v, type, slots, hole)
    BY <1>2, OutSound, SoundLoad
  <2>2. hole = "none" => Within(type.links[1].t, V(out))
    BY <1>2, OutSound, TargetFacts
  <2> HIDE DEF v, type
  <2>3. SoundValue(x, slots, hole)
    BY <1>2, <2>1, OutSound, SoundLoaded
  <2>4. clash' \in BOOLEAN /\ (hole = "none" => clash' = FALSE)
    BY <1>2, <2>2, OutSound DEF Clashes
  <2> HIDE DEF x
  <2> QED
    BY <1>1, <1>2, <2>3, <2>4, YieldStep
<1>3. CASE \E junk \in BOOLEAN : Refuse("abort", junk)
  BY <1>1, <1>3, RefuseStep, StateFacts
<1> QED
  BY <1>2, <1>3 DEF Dereference

LEMMA BoolSound ==
    ASSUME Inductive
    PROVE  SoundValue(Fresh(Bits("bool"), Plain("bool")), slots, hole)
BY ChainPlain, SoundBits, SoundFresh, StateFacts

LEMMA PreOpSound ==
    ASSUME Inductive, FinishPreOp
    PROVE  Inductive'
<1>1. mode = "value" /\ Top.role = "preop" /\ nodes' = nodes
  BY DEF FinishPreOp, Returned
<1>2. CASE \E x : Yield(x) /\ SoundValue(x, slots, hole) /\ UNCHANGED <<slots, scope, hole, clash>>
  BY <1>1, <1>2, OutSound, YieldStep
<1>3. CASE Fail("abort")
  BY <1>1, <1>3, FailStep, StateFacts DEF Modes
<1>4. SoundValue(Fresh(V(out), TypeOf(out)), slots, hole)
  BY OutSound, SoundFresh
<1> QED
  BY <1>2, <1>3, <1>4, BoolSound, OutSound DEF FinishPreOp

LEMMA MintSound ==
    ASSUME Inductive, FinishMint
    PROVE  Inductive'
<1> DEFINE slot == [type |-> TypeOf(out), content |-> V(out)]
           n == Len(slots)
<1>1. mode = "value" /\ Top.role = "mint" /\ nodes' = nodes /\ Top.op \in Names
  BY TopFacts DEF FinishMint, Returned, SoundFrame
<1>2. /\ slots \in Seq(Slot) /\ n \in Nat /\ DOMAIN slots = 1 .. n
      /\ scope \in [Names -> 0 .. n] /\ Sound(V(out), TypeOf(out), slots, hole)
  BY StateFacts, OutSound
<1>3. slot \in Slot /\ slot.type = TypeOf(out) /\ slot.content = V(out)
  BY <1>2 DEF Slot, Sound, Chain
<1>4. slots' = Append(slots, slot) /\ scope' = [scope EXCEPT ![Top.op] = n + 1] /\ hole' = hole
  BY DEF FinishMint
<1> HIDE DEF slot, n
<1>5. /\ slots' \in Seq(Slot) /\ Len(slots') = n + 1 /\ DOMAIN slots' = 1 .. n + 1
      /\ \A i \in 1 .. n : slots'[i] = slots[i]
      /\ slots'[n + 1] = slot
  BY <1>2, <1>3, <1>4, AppendProperties DEF n
<1>6. SlotsGrow(slots, slots')
  BY <1>2, <1>5 DEF SlotsGrow, n
<1>7. SoundSlots(slots', hole')
  <2> SUFFICES ASSUME NEW i \in 1 .. n + 1
               PROVE  Sound(slots'[i].content, slots'[i].type, slots', hole)
    BY <1>4, <1>5 DEF SoundSlots
  <2>1. CASE i \in 1 .. n
    <3>1. Sound(slots[i].content, slots[i].type, slots, hole)
      BY <1>2, <2>1 DEF Inductive, SoundSlots
    <3> QED
      BY <1>2, <1>5, <1>6, <2>1, <3>1, SoundStays
  <2>2. CASE i = n + 1
    BY <1>2, <1>3, <1>5, <1>6, <2>2, SoundStays
  <2> QED
    BY <1>2, <2>1, <2>2
<1>8. SoundValue(out, slots', hole')
  BY <1>2, <1>4, <1>5, <1>6, OutSound, ValueStays
<1>9. scope' \in [Names -> 0 .. Len(slots')]
  BY <1>1, <1>2, <1>4, <1>5
<1>10. clash' \in BOOLEAN /\ (hole = "none" => clash' = FALSE) /\ hole \in {"none", "cast", "assign"}
  BY OutSound DEF FinishMint
<1> QED
  BY <1>1, <1>4, <1>6, <1>7, <1>8, <1>9, <1>10, ChangeStep DEF FinishMint

LEMMA RightSound ==
    ASSUME Inductive, RightOperand
    PROVE  Inductive'
<1> DEFINE f == [role |-> "right", op |-> Top.op, held |-> <<out>>]
<1>1. mode = "value" /\ Top.role = "left" /\ nodes' \in Nat
  BY StateFacts DEF RightOperand, Returned
<1>2. Top.op \in Ops /\ Outer # << >> /\ SoundFrames(Outer, slots, hole)
  BY <1>1, TopFacts DEF SoundFrame, Frame
<1>3. SoundValue(out, slots, hole)
  BY OutSound
<1>4. <<out>> \in Seq(Value) /\ <<out>> # << >> /\ DOMAIN <<out>> = {1} /\ <<out>>[1] = out
  BY <1>3 DEF SoundValue
<1>5. f \in Frame /\ f.role = "right" /\ f.held = <<out>>
  BY <1>2, <1>4 DEF Frame, Roles
<1> HIDE DEF f
<1>6. SoundFrame(f, slots, hole)
  BY <1>3, <1>4, <1>5 DEF SoundFrame
<1> QED
  BY <1>1, <1>2, <1>6, CompileStep DEF RightOperand, Roles, f

(* The left side of an operator is sound. *)
LEMMA HeldFacts ==
    ASSUME Inductive, mode = "value", Top.role \in {"right", "arg"}
    PROVE  /\ Top.held \in Seq(Value) /\ Top.held # << >> /\ Len(Top.held) \in Nat \ {0}
           /\ DOMAIN Top.held = 1 .. Len(Top.held)
           /\ \A j \in DOMAIN Top.held : SoundValue(Top.held[j], slots, hole)
           /\ SoundValue(Top.held[1], slots, hole)
           /\ Top.role = "arg" => Callee(Top.held[1]) \in Functions
<1>1. SoundFrame(Top, slots, hole)
  BY TopFacts
<1>2. Top.held \in Seq(Value) /\ Top.held # << >>
  BY <1>1 DEF SoundFrame, Frame
<1>3. Len(Top.held) \in Nat \ {0} /\ DOMAIN Top.held = 1 .. Len(Top.held)
  BY <1>2, EmptySeq, LenProperties
<1>4. 1 \in DOMAIN Top.held
  <2> DEFINE n == Len(Top.held)
  <2> HIDE DEF n
  <2> QED
    BY <1>3 DEF n
<1> QED
  BY <1>1, <1>2, <1>3, <1>4 DEF SoundFrame

(***************************************************************************)
(* The store of an assignment.  A number is stored in a slot of its width; *)
(* a pointer, unless hole tells, in one for pointers to the same.          *)
(***************************************************************************)
LEMMA StoreSound ==
    ASSUME Inductive, NEW p, NEW pointer, Sound(p, pointer, slots, hole), HasStored(pointer),
           NEW b, SoundValue(b, slots, hole), T(b) = Stored(pointer).links[1].t,
           Store(V(b), p),
           hole' = "none" => hole = "none" /\ (T(b) # "ptr" \/ SameType(TypeOf(b), Stored(pointer)))
    PROVE  /\ SlotsGrow(slots, slots') /\ Len(slots') = Len(slots)
           /\ SoundSlots(slots', hole')
           /\ SoundValue(b, slots', hole')
           /\ clash' \in BOOLEAN /\ (hole' = "none" => clash' = FALSE)
<1> DEFINE t == Stored(pointer).links[1].t
<1>1. /\ slots \in Seq(Slot) /\ Len(slots) \in Nat /\ DOMAIN slots = 1 .. Len(slots)
      /\ SlotsGrow(slots, slots)
  BY StateFacts
<1>2. /\ Chain(Stored(pointer))
      /\ hole = "none" => /\ p.to \in DOMAIN slots
                          /\ Chain(slots[p.to].type)
                          /\ SameType(slots[p.to].type, Stored(pointer))
                          /\ Within(t, p)
  BY TargetFacts
<1>3. V(b).t = t /\ Chain(TypeOf(b)) /\ TypeOf(b).links[1].t = t
  <2>1. V(b).t = T(b) /\ Chain(TypeOf(b))
    BY ValueFacts
  <2> QED
    BY <2>1 DEF T
<1>4. SoundSlots(slots, hole') /\ SoundValue(b, slots, hole')
  BY <1>1, OutSound, SlotsStay, ValueStays
<1> HIDE DEF t
<1>5. clash' \in BOOLEAN /\ (hole' = "none" => clash' = FALSE)
  BY <1>2, <1>3, OutSound DEF Store, Clashes
<1>6. CASE Within(t, p)
  <2> DEFINE slot == [slots[p.to] EXCEPT !.content = V(b)]
             type == slots[p.to].type
  <2>1. p.to \in DOMAIN slots
    BY <1>1, <1>6 DEF Sound, Within
  <2>2. slots[p.to] \in Slot
    BY <1>1, <2>1, ElementOfSeq
  <2>3. slots' = [slots EXCEPT ![p.to] = slot]
    BY <1>3, <1>6, <2>1 DEF Store
  <2>4. Sound(V(b), TypeOf(b), slots, hole')
    BY <1>4, ValueFacts
  <2>5. slot \in Slot /\ slot.content = V(b) /\ slot.type = type
    BY <2>2, <2>4 DEF Sound, Slot
  <2>6. Chain(type) /\ type.links[1].t = t
    BY <1>6, <2>1 DEF Within, Inductive, SoundSlots, Sound
  <2> HIDE DEF slot, type
  <2>7. /\ slots' \in Seq(Slot) /\ Len(slots') = Len(slots) /\ DOMAIN slots' = DOMAIN slots
        /\ \A i \in DOMAIN slots : slots'[i] = IF i = p.to THEN slot ELSE slots[i]
    BY <1>1, <2>1, <2>3, <2>5, ExceptSeq
  <2>8. SlotsGrow(slots, slots')
    BY <1>1, <2>5, <2>7 DEF SlotsGrow, type
  <2>9. Sound(V(b), type, slots, hole')
    <3>1. hole' = "none" /\ t = "ptr" => SameType(TypeOf(b), type)
      <4> SUFFICES ASSUME hole' = "none", t = "ptr"
                   PROVE  SameType(TypeOf(b), type)
        OBVIOUS
      <4>1. SameType(TypeOf(b), Stored(pointer)) /\ SameType(type, Stored(pointer))
        BY <1>2 DEF type, t
      <4> QED
        BY <1>2, <1>3, <2>6, <4>1, SameIsSymmetric, SameIsTransitive
    <3> QED
      BY <1>3, <1>4, <2>4, <2>6, <3>1, SoundSame
  <2>10. \A i \in DOMAIN slots' : Sound(slots'[i].content, slots'[i].type, slots', hole')
    <3> TAKE i \in DOMAIN slots'
    <3>1. CASE i = p.to
      BY <1>1, <2>5, <2>7, <2>8, <2>9, <3>1, SoundStays
    <3>2. CASE i # p.to
      <4>1. Sound(slots[i].content, slots[i].type, slots, hole') /\ slots'[i] = slots[i]
        BY <1>4, <2>7, <3>2 DEF SoundSlots
      <4> QED
        BY <1>1, <2>7, <2>8, <4>1, SoundStays
    <3> QED
      BY <3>1, <3>2
  <2>11. SoundValue(b, slots', hole')
    BY <1>1, <1>4, <2>7, <2>8, ValueStays
  <2> QED
    BY <1>5, <2>7, <2>8, <2>10, <2>11 DEF SoundSlots
<1>7. CASE ~Within(t, p)
  <2>1. slots' = slots
    BY <1>3, <1>7 DEF Store
  <2> QED
    BY <1>1, <1>4, <1>5, <2>1
<1> QED
  BY <1>6, <1>7

LEMMA AssignSound ==
    ASSUME Inductive, FinishAssign
    PROVE  Inductive'
<1> DEFINE a == Top.held[1]
           pointer == TypeOf(Address(a))
           target == Stored(pointer)
           t == target.links[1].t
           b == Converted(out, t)
<1>1. mode = "value" /\ Top.role = "right" /\ nodes' = nodes
  BY DEF FinishAssign, Returned
<1>2. SoundValue(a, slots, hole) /\ SoundValue(out, slots, hole) /\ slots \in Seq(Slot)
  BY <1>1, HeldFacts, OutSound
<1>3. CASE /\ HasAddress(a) /\ implicit_casts(out, target)
           /\ Store(V(b), V(Address(a)))
           /\ hole' = IF {T(b), t} = {"ptr"} /\ ~SameType(TypeOf(b), target)
                      THEN "assign" ELSE hole
           /\ Yield(b)
           /\ UNCHANGED scope
  <2>1. SoundValue(Address(a), slots, hole) /\ HasStored(pointer)
    BY <1>2, <1>3, SoundAddress
  <2>2. Sound(V(Address(a)), pointer, slots, hole)
    BY <2>1, ValueFacts
  <2>3. /\ SoundValue(b, slots, hole)
        /\ Integer(T(out)) /\ Integer(t) => T(b) = t
        /\ ~(Integer(T(out)) /\ Integer(t)) => b = out
    BY <1>2, SoundConverted
  <2>4. ~(Integer(T(out)) /\ Integer(t)) => T(out) = t
    BY <1>3 DEF implicit_casts, types_exactly_equal, T
  <2>5. T(b) = t
    BY <2>3, <2>4
  <2> HIDE DEF b, target
  <2>6. hole' = "none" => hole = "none" /\ (T(b) # "ptr" \/ SameType(TypeOf(b), target))
    BY <1>3, <2>5
  <2>7. /\ SlotsGrow(slots, slots') /\ Len(slots') = Len(slots)
        /\ SoundSlots(slots', hole') /\ SoundValue(b, slots', hole')
        /\ clash' \in BOOLEAN /\ (hole' = "none" => clash' = FALSE)
    BY <1>3, <2>1, <2>2, <2>3, <2>5, <2>6, StoreSound DEF target
  <2>8. hole' \in {"none", "cast", "assign"} /\ scope' \in [Names -> 0 .. Len(slots')]
    BY <1>3, <2>7, OutSound, StateFacts
  <2> QED
    BY <1>1, <1>3, <2>6, <2>7, <2>8, ChangeStep
<1>4. CASE \E junk \in BOOLEAN : Refuse("error", junk) \/ Refuse("abort", junk)
  BY <1>1, <1>4, RefuseStep, StateFacts
<1>5. Misread(TypeOf(out), target) \in BOOLEAN /\ (a.end = "junk") \in BOOLEAN
  BY DEF Misread
<1> QED
  BY <1>3, <1>4, <1>5 DEF FinishAssign

LEMMA BinOpSound ==
    ASSUME Inductive, FinishBinOp
    PROVE  Inductive'
<1> DEFINE a == Top.held[1]
           t == Wider(T(a), T(out))
<1>1. mode = "value" /\ Top.role = "right" /\ nodes' = nodes
  BY DEF FinishBinOp, Returned
<1>2. SoundValue(a, slots, hole) /\ slots \in Seq(Slot)
  BY <1>1, HeldFacts, OutSound
<1>3. ASSUME Integer(T(a)), Integer(T(out))
      PROVE  SoundValue(Fresh(Bits(t), PromotedType(a, t)), slots, hole)
  <2>1. t \in {"int", "bool"}
    BY DEF Wider
  <2>2. Chain(PromotedType(a, t)) /\ PromotedType(a, t).links[1].t = t
    BY <1>2, <2>1, ChainPlain, ValueFacts DEF PromotedType, T
  <2> HIDE DEF t
  <2> QED
    BY <1>2, <2>1, <2>2, SoundBits, SoundFresh
<1>4. CASE \E x : Yield(x) /\ SoundValue(x, slots, hole) /\ UNCHANGED <<slots, scope, hole, clash>>
  BY <1>1, <1>4, OutSound, YieldStep
<1>5. CASE Fail("abort")
  BY <1>1, <1>5, FailStep, StateFacts DEF Modes
<1> HIDE DEF t
<1> QED
  BY <1>3, <1>4, <1>5, BoolSound DEF FinishBinOp, t

(* A function is called as what it is, unless hole tells.                  *)
LEMMA CallsSound ==
    ASSUME Inductive, mode = "value", Top.role \in {"callee", "arg"},
           NEW x, SoundValue(x, slots, hole), Callee(x) \in Functions,
           Calls(x), nodes' = nodes
    PROVE  Inductive'
<1> DEFINE y == Fresh(Bits("int"), Plain("int"))
<1>1. SoundValue(y, slots, hole)
  BY ChainPlain, SoundBits, SoundFresh, StateFacts
<1> HIDE DEF y
<1>2. Sound(V(x), TypeOf(x), slots, hole) /\ Chain(TypeOf(x))
  BY ValueFacts
<1>3. TypeOf(x).links[1].t = "ptr"
  BY <1>2, ChainHead DEF Callee
<1>4. hole = "none" => SameFunction(V(x).fn, Callee(x))
  BY <1>2, <1>3 DEF Sound, Fits, Callee, SameFunction
<1>5. clash' \in BOOLEAN /\ (hole = "none" => clash' = FALSE)
  BY <1>4, OutSound DEF Calls
<1> QED
  BY <1>1, <1>5, YieldStep DEF Calls, y

(* The next argument is compiled by a frame that holds what is there.      *)
LEMMA ArgFrame ==
    ASSUME Inductive, mode = "value", Top.role \in {"callee", "arg"},
           NEW held \in Seq(Value), held # << >>,
           \A j \in DOMAIN held : SoundValue(held[j], slots, hole),
           Callee(held[1]) \in Functions,
           Compile(Outer, "arg", "", held),
           UNCHANGED <<slots, scope, out, hole, clash, nodes>>
    PROVE  Inductive'
<1> DEFINE f == [role |-> "arg", op |-> "", held |-> held]
<1>1. f \in Frame /\ f.role = "arg" /\ f.held = held
  BY DEF Frame, Roles, Ops
<1>2. Outer # << >> /\ SoundFrames(Outer, slots, hole) /\ nodes' \in Nat
  BY TopFacts, StateFacts
<1> HIDE DEF f
<1>3. SoundFrame(f, slots, hole)
  BY <1>1 DEF SoundFrame
<1> QED
  BY <1>2, <1>3, CompileStep DEF Roles, f

LEMMA ArgumentsSound ==
    ASSUME Inductive, NEW args \in ArgCounts, Arguments(args)
    PROVE  Inductive'
<1> DEFINE f == Callee(out)
<1>1. mode = "value" /\ Top.role = "callee" /\ nodes' = nodes
  BY DEF Arguments, Returned
<1>2. SoundValue(out, slots, hole)
  BY OutSound
<1>3. CASE f \in Functions /\ Calls(out)
  BY <1>1, <1>2, <1>3, CallsSound
<1>4. CASE f \in Functions /\ Compile(Outer, "arg", "", <<out>>) /\ UNCHANGED <<slots, scope, out, hole, clash>>
  <2>1. <<out>> \in Seq(Value) /\ <<out>> # << >> /\ DOMAIN <<out>> = {1} /\ <<out>>[1] = out
    BY <1>2 DEF SoundValue
  <2> QED
    BY <1>1, <1>2, <1>4, <2>1, ArgFrame
<1>5. CASE Fail("error")
  BY <1>1, <1>5, FailStep, StateFacts DEF Modes
<1>6. CASE Refuse("error", f = "junk")
  BY <1>1, <1>6, RefuseStep, StateFacts
<1> QED
  BY <1>3, <1>4, <1>5, <1>6 DEF Arguments

LEMMA ArgSound ==
    ASSUME Inductive, FinishArg
    PROVE  Inductive'
<1> DEFINE callee == Top.held[1]
<1>1. mode = "value" /\ Top.role = "arg" /\ nodes' = nodes
  BY DEF FinishArg, Returned
<1>2. /\ Top.held \in Seq(Value) /\ Top.held # << >>
      /\ DOMAIN Top.held = 1 .. Len(Top.held) /\ Len(Top.held) \in Nat \ {0}
      /\ \A j \in DOMAIN Top.held : SoundValue(Top.held[j], slots, hole)
      /\ SoundValue(callee, slots, hole) /\ Callee(callee) \in Functions
  BY <1>1, HeldFacts
<1>3. CASE Compile(Outer, "arg", "", Append(Top.held, out)) /\ UNCHANGED <<slots, scope, out, hole, clash>>
  <2> DEFINE held == Append(Top.held, out)
             n == Len(Top.held)
  <2>1. out \in Value /\ SoundValue(out, slots, hole)
    BY OutSound DEF SoundValue
  <2>2. /\ held \in Seq(Value) /\ held # << >> /\ DOMAIN held = 1 .. n + 1
        /\ \A j \in 1 .. n : held[j] = Top.held[j]
        /\ held[n + 1] = out
    BY <1>2, <2>1, AppendProperties
  <2> HIDE DEF held
  <2>3. \A j \in DOMAIN held : SoundValue(held[j], slots, hole)
    <3> TAKE j \in DOMAIN held
    <3>1. j \in 1 .. n \/ j = n + 1
      BY <1>2, <2>2
    <3> QED
      BY <1>2, <2>1, <2>2, <3>1
  <2> HIDE DEF n
  <2>4. 1 \in 1 .. n
    BY <1>2 DEF n
  <2>5. Callee(held[1]) \in Functions
    BY <1>2, <2>2, <2>4
  <2> QED
    BY <1>1, <1>3, <2>2, <2>3, <2>5, ArgFrame DEF held
<1>4. CASE Calls(callee)
  BY <1>1, <1>2, <1>4, CallsSound
<1>5. CASE Fail("error")
  BY <1>1, <1>5, FailStep, StateFacts DEF Modes
<1> QED
  BY <1>3, <1>4, <1>5 DEF FinishArg

LEMMA FinishStatementSound ==
    ASSUME Inductive, FinishStatement
    PROVE  Inductive'
<1>1. /\ UNCHANGED <<slots, scope, hole, clash>> /\ nodes' \in Nat
      /\ clash' \in BOOLEAN /\ (hole = "none" => clash' = FALSE)
  BY StateFacts, OutSound DEF FinishStatement
<1>2. CASE stack' = << >> /\ out' = Nothing /\ mode' \in {"idle", "returned"}
  <2>1. SoundValue(Nothing, slots, hole)
    BY ChainPlain, SoundBits, SoundFresh, StateFacts DEF Nothing
  <2>2. SoundFrames(<< >>, slots, hole)
    BY EmptySeq, LenProperties DEF SoundFrames
  <2> QED
    BY <1>1, <1>2, <2>1, <2>2, QuietStep DEF Modes
<1>3. CASE mode' = "error" /\ UNCHANGED <<stack, out>>
  BY <1>1, <1>3, QuietStep DEF Inductive, Modes
<1> QED
  BY <1>2, <1>3 DEF FinishStatement

LEMMA StepSound ==
    ASSUME Inductive, [Next]_vars
    PROVE  Inductive'
<1>1. CASE \E kind \in Kinds : Statement(kind)
  BY <1>1, StatementSound
<1>2. CASE Num
  BY <1>2, NumSound
<1>3. CASE \E n \in Names : Var(n)
  BY <1>3, VarSound
<1>4. CASE \E n \in Names : Mint(n)
  BY <1>4, EnterSound DEF Mint, Roles, Ops
<1>5. CASE \E name \in Casts : TypeCast(name)
  BY <1>5, EnterSound DEF TypeCast, Roles, Ops
<1>6. CASE \E op \in PreOps : PreOp(op)
  BY <1>6, EnterSound DEF PreOp, Roles, Ops
<1>7. CASE \E op \in BinOps : BinOp(op)
  BY <1>7, EnterSound DEF BinOp, Roles, Ops
<1>8. CASE Call
  BY <1>8, EnterSound DEF Call, Roles, Ops
<1>9. CASE Unimplemented
  BY <1>9, FailStep, StateFacts DEF Unimplemented, Modes
<1>10. CASE FinishCast \/ AddressOf \/ Dereference \/ FinishPreOp
  BY <1>10, CastSound, AddressOfSound, DereferenceSound, PreOpSound
<1>11. CASE FinishMint \/ RightOperand \/ FinishAssign \/ FinishBinOp
  BY <1>11, MintSound, RightSound, AssignSound, BinOpSound
<1>12. CASE \E args \in ArgCounts : Arguments(args)
  BY <1>12, ArgumentsSound
<1>13. CASE FinishArg
  BY <1>13, ArgSound
<1>14. CASE FinishStatement
  BY <1>14, FinishStatementSound
<1>15. CASE Done \/ UNCHANGED vars
  <2>1. UNCHANGED vars
    BY <1>15 DEF Done
  <2>2. /\ SoundValue(out, slots, hole) /\ SoundFrames(stack, slots, hole) /\ TypeOK
        /\ hole = "none" => clash = FALSE
    BY DEF Inductive
  <2> QED
    BY <2>1, <2>2, QuietStep DEF vars, TypeOK
<1> QED
  BY <1>1, <1>2, <1>3, <1>4, <1>5, <1>6, <1>7, <1>8, <1>9, <1>10, <1>11, <1>12, <1>13,
     <1>14, <1>15 DEF Next

-----------------------------------------------------------------------------
(* What follows. *)

(* The invariant above holds in every state the visitors reach.            *)
THEOREM InductiveInvariant == Spec => []Inductive
  BY InitSound, StepSound, PTL DEF Spec

(* Every value in play is one of those the invariant speaks of.            *)
LEMMA InPlaySound ==
    ASSUME Inductive, NEW x \in InPlay
    PROVE  SoundValue(x, slots, hole)
<1>1. CASE x = out
  BY <1>1, OutSound
<1>2. CASE \E i \in DOMAIN stack : \E j \in DOMAIN stack[i].held : x = stack[i].held[j]
  BY <1>2 DEF Inductive, SoundFrames, SoundFrame
<1> QED
  BY <1>1, <1>2 DEF InPlay

(* The visitors are type correct, and the type of a Value is the LLVM type *)
(* of its register, whatever the program casts.                            *)
THEOREM TagsAreTrue == Spec => []TagsTrue
<1>1. Inductive => TagsTrue
  BY InPlaySound DEF Inductive, TagsTrue, SoundValue, Sound
<1> QED
  BY <1>1, InductiveInvariant, PTL

(* The links of a type that were never set are those of integers: for all  *)
(* programs and casts, a value of a pointer type, in play or in a slot,    *)
(* says what it points to.  It does not say that no unset field is read:   *)
(* casting or calling a number tests one, and so does & of, or an          *)
(* assignment to, what has no address (those runs end in "undefined").     *)
THEOREM UnsetStaysWithNumbers == Spec => []PointersAreSet
<1>1. ASSUME Inductive
      PROVE  PointersAreSet
  <2>1. \A i \in DOMAIN slots : CleanType(slots[i].type)
    BY <1>1, CleanChain DEF Inductive, SoundSlots, Sound
  <2>2. \A x \in InPlay : \A i \in DOMAIN x.cells : CleanType(x.cells[i].type)
    BY <1>1, InPlaySound, CleanChain DEF SoundValue, Sound
  <2> QED
    BY <2>1, <2>2 DEF PointersAreSet
<1>2. Inductive => PointersAreSet
  BY <1>1
<1> QED
  BY <1>2, InductiveInvariant, PTL

(* Until a pointer is cast to, or assigned from, a pointer to something    *)
(* else, types agree with memory at any distance, and every load, store    *)
(* and call fits its target.                                               *)
THEOREM TypesAgreeWithMemory == Spec => []TypesHold
<1>1. ASSUME Inductive, hole = "none"
      PROVE  WellTyped /\ ~clash
  <2>1. \A v, type : Fits(v, type, slots) => Conforms(v, type)
    BY DEF Fits, Conforms
  <2>2. \A i \in DOMAIN slots : Conforms(slots[i].content, slots[i].type)
    BY <1>1, <2>1 DEF Inductive, SoundSlots, Sound
  <2>3. \A x \in InPlay : \A i \in DOMAIN x.cells : Conforms(x.cells[i].v, x.cells[i].type)
    BY <1>1, <2>1, InPlaySound DEF SoundValue, Sound
  <2> QED
    BY <1>1, <2>2, <2>3 DEF WellTyped, Inductive
<1>2. Inductive => TypesHold
  BY <1>1 DEF TypesHold
<1> QED
  BY <1>2, InductiveInvariant, PTL


=============================================================================
