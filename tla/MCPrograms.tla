----------------------------- MODULE MCPrograms ------------------------------
(***************************************************************************)
(* Values on two fragments of the language, chosen at the beginning:       *)
(* everything, up to a few nodes, and longer programs of &, *, =, a cast   *)
(* and locals, which store through pointers to pointers.                   *)
(***************************************************************************)
EXTENDS MCValues, Sequences

CONSTANTS
    MaxShort,       \* bound: nodes of a program of the first fragment
    Locale          \* the names of the second fragment, as they are minted

MCLocale == <<"x", "p", "f">>

VARIABLE fragment

mcvars == <<vars, fragment>>

MCInit ==
    /\ Init
    /\ fragment \in {"everything", "pointers"}
    /\ fragment = "pointers" => Locals \subseteq {Locale[1]}

Everything == fragment = "everything" /\ Next /\ nodes' <= MaxShort

Short == fragment = "everything" /\ nodes = MaxShort /\ mode \in {"idle", "visit"} /\ UNCHANGED vars

(* Names that were not used yet are alike: only the next one is tried. *)
Used == Locals \cup {stack[i].op : i \in {k \in DOMAIN stack : stack[k].role = "mint"}}
MintNext ==
    \E i \in DOMAIN Locale : (\A j \in 1 .. i - 1 : Locale[j] \in Used) /\ Mint(Locale[i])

Pointers ==
    /\ fragment = "pointers"
    /\ \/ \E kind \in Kinds : Statement(kind)
       \/ Num
       \/ \E n \in Locals : Var(n)
       \/ MintNext
       \/ TypeCast("bool")
       \/ PreOp("BitAnd") \/ PreOp("Star")
       \/ BinOp("Assign")
       \/ FinishCast \/ AddressOf \/ Dereference \/ FinishPreOp
       \/ FinishMint \/ RightOperand \/ FinishAssign
       \/ FinishStatement
       \/ Done

MCNext == (Everything \/ Short \/ Pointers) /\ UNCHANGED fragment

MCSpec == MCInit /\ [][MCNext]_mcvars

=============================================================================
