------------------------------ MODULE KeyedUnion -----------------------------
(***************************************************************************)
(* Go values of the keyed-union structs of types.gen.go, and the           *)
(* assignments the declarations allow on them.                             *)
(*                                                                         *)
(* For every keyed struct s in Structs the state holds one value of type  *)
(* s: its tag field and the dynamic type of its payload field (Nil for a   *)
(* nil interface).  The tag and the payload are two independent fields:    *)
(* Go lets a program assign either one alone, and the payload field       *)
(* accepts any value whose type has the interface's marker method: a      *)
(* variant value, or, through the value receiver, a pointer to one.       *)
(***************************************************************************)
EXTENDS XenlightUnions

CONSTANTS
    Structs,      \* the keyed structs of which the model keeps one value
    Nil,          \* the nil interface value
    ForeignTags   \* integers of the tag's type that name no declared label

ASSUME Structs \subseteq KeyedStructs
ASSUME Nil \notin PayloadTypes
ASSUME ForeignTags \subseteq Int

VARIABLES
    tag,          \* tag[s]: the value of the tag field (Type or Connection)
    payload       \* payload[s]: dynamic type of the <tag>Union field, or Nil

vars == <<tag, payload>>

(* The values a tag field can be given: every declared constant of its    *)
(* enumeration, and, since the enumeration is a plain int type, any other *)
(* integer converted to it.                                                *)
TagValues(s) == Range(TagEnum(s)) \cup ForeignTags

(* var x S: the zero value, tag 0 and a nil payload. *)
Init ==
    /\ tag = [s \in Structs |-> ZeroValue]
    /\ payload = [s \in Structs |-> Nil]

(* x.Type = v *)
SetTag(s, v) ==
    /\ tag' = [tag EXCEPT ![s] = v]
    /\ UNCHANGED payload

(* Mutant of SetUnion: the payload assigned without the interface check. *)
SetUnionUnchecked(s, t) ==
    /\ payload' = [payload EXCEPT ![s] = t]
    /\ UNCHANGED tag

(* x.TypeUnion = t, for t nil or a value of any type of the package with  *)
(* a marker method (DomainBuildInfoTypeUnionHvm{}, &hvm, ...); the        *)
(* compiler accepts it only when t implements the field's interface.      *)
SetUnion(s, t) ==
    /\ t = Nil \/ Implements(t, s)
    /\ payload' = [payload EXCEPT ![s] = t]
    /\ UNCHANGED tag

Next ==
    \E s \in Structs :
        \/ \E v \in TagValues(s) : SetTag(s, v)
        \/ \E t \in PayloadTypes \cup {Nil} : SetUnion(s, t)

Spec == Init /\ [][Next]_vars

-----------------------------------------------------------------------------
(* Type invariant: each payload field holds nil or a value whose type      *)
(* implements the field's interface, the static typing of the <tag>Union   *)
(* fields.                                                                 *)
TypeOK ==
    /\ tag \in [Structs -> Int]
    /\ \A s \in Structs : tag[s] \in TagValues(s) \cup {ZeroValue}
    /\ \A s \in Structs :
          payload[s] = Nil \/ (payload[s] \in PayloadTypes /\ Implements(payload[s], s))

(* Closed unions: the payload of a keyed struct is only ever nil or one of *)
(* that struct's own variants (a value or a pointer), never a variant of  *)
(* another union, even of a union keyed by the same enumeration           *)
(* (Channelinfo and DeviceChannel are both keyed by ChannelConnection).   *)
(* This rests on the marker method names isChannelinfoConnectionUnion and *)
(* isDeviceChannelConnectionUnion being distinct.                          *)
PayloadBelongs == \A s \in Structs : payload[s] \in VariantsAndPtrs(s) \cup {Nil}

(* Exhaustive match (spec 4.3 step 6 and section 9): a consumer's type    *)
(* switch with one case per variant type of the union, case               *)
(* DomainBuildInfoTypeUnionHvm, case DomainBuildInfoTypeUnionPv, ...,     *)
(* matches every non-nil payload.  The marker methods have value          *)
(* receivers (func (x DomainBuildInfoTypeUnionHvm) isDomainBuildInfo...), *)
(* so a pointer to a variant implements the interface as well.            *)
ExhaustiveMatch == \A s \in Structs : payload[s] \in Variants(s) \cup {Nil}

=============================================================================
