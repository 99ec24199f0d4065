---------------------------- MODULE XenlightUnions ---------------------------
(***************************************************************************)
(* The keyed unions of types.gen.go: their tag fields, interfaces, marker *)
(* methods and variant types, and which types implement which interface. *)
(*                                                                         *)
(* A keyed union is a struct S with                                        *)
(*   - a tag field F of an enumeration type E,                             *)
(*   - a field FUnion of the interface type SFUnion, whose only method is *)
(*     the unexported marker isSFUnion(),                                  *)
(* and, for every label l of E that carries a payload, a struct type      *)
(* SFUnionl with the method func (x SFUnionl) isSFUnion(){}.  The value   *)
(* receiver puts the marker in the method set of *SFUnionl as well.       *)
(* The payload structs' own fields are abstracted away: a payload is the  *)
(* name of its Go type.                                                    *)
(***************************************************************************)
EXTENDS XenlightEnums, Functions

(* One record per keyed union: the tag field, the tag's enumeration and   *)
(* the labels that have a variant type.                                    *)
Channelinfo ==
    [tag |-> "Connection", enum |-> "ChannelConnection", variants |-> {"Pty"}]

DomainBuildInfo ==
    [tag |-> "Type", enum |-> "DomainType", variants |-> {"Hvm", "Pv", "Pvh"}]

DeviceUsbdev ==
    [tag |-> "Type", enum |-> "UsbdevType", variants |-> {"Hostdev"}]

DeviceChannel ==
    [tag |-> "Connection", enum |-> "ChannelConnection",
     variants |-> {"Socket"}]

Event ==
    [tag |-> "Type", enum |-> "EventType",
     variants |-> {"DomainShutdown", "DiskEject", "OperationComplete"}]

PsrHwInfo ==
    [tag |-> "Type", enum |-> "PsrFeatType", variants |-> {"Cat", "Mba"}]

KeyedUnions ==
    [Channelinfo |-> Channelinfo, DomainBuildInfo |-> DomainBuildInfo,
     DeviceUsbdev |-> DeviceUsbdev, DeviceChannel |-> DeviceChannel,
     Event |-> Event, PsrHwInfo |-> PsrHwInfo]

KeyedStructs == DOMAIN KeyedUnions

(* The enumeration of the tag field of keyed struct s. *)
TagEnum(s) == Enums[KeyedUnions[s].enum]

(* The interface type of the payload field: ChannelinfoConnectionUnion. *)
UnionIface(s) == s \o KeyedUnions[s].tag \o "Union"

(* Mutant of MarkerMethod: named after the tag's enumeration rather than *)
(* the struct, so unions keyed by the same enumeration share a marker.    *)
MarkerMethodByEnum(s) == "is" \o KeyedUnions[s].enum \o "Union"

(* The interface's marker method: isChannelinfoConnectionUnion. *)
MarkerMethod(s) == "is" \o UnionIface(s)

(* The variant type of label l: ChannelinfoConnectionUnionPty. *)
VariantType(s, l) == UnionIface(s) \o l

Variants(s) == {VariantType(s, l) : l \in KeyedUnions[s].variants}

VariantTypes == UNION {Variants(s) : s \in KeyedStructs}

(* The pointer type *t. *)
PtrTo(t) == "*" \o t

(* The variants of s and the pointers to them. *)
VariantsAndPtrs(s) == Variants(s) \cup {PtrTo(t) : t \in Variants(s)}

(* The types of the package that have a marker method: every variant, and *)
(* every pointer to a variant.                                             *)
PayloadTypes == UNION {VariantsAndPtrs(s) : s \in KeyedStructs}

(* The method set of type t: the marker methods declared with receiver t, *)
(* func (x ChannelinfoConnectionUnionPty) isChannelinfoConnectionUnion(){}, *)
(* and, for t = *v, those declared with receiver v as well, since the     *)
(* method set of a pointer type includes its base type's methods.         *)
MethodSet(t) ==
    {MarkerMethod(s) : s \in {u \in KeyedStructs : t \in VariantsAndPtrs(u)}}

(* A value of type t may be stored in the payload field of s exactly when *)
(* t implements the field's interface, i.e. has its marker method.        *)
Implements(t, s) == MarkerMethod(s) \in MethodSet(t)

=============================================================================
