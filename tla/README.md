# TLA+ models of the xenlight Go type declarations

The repository's source is one file, `src/tools/golang/xenlight/types.gen.go`.
It is the output of the generator `gengotypes.py`, which reads `libxl_types.idl`.
Neither the generator nor the IDL is in the repository. The file declares:

* 43 enumerations: `type T int` plus one `const` per label. The values are
  exact, including negative sentinels (`DomainTypeInvalid = -1`, the `Error`
  codes) and gaps (`GicVersion` 0/32/48, `Scheduler` 0,4..9, `SveType` in
  steps of 128).
* About 80 plain structs: ordered fields, slices for list fields, and
  anonymous inline structs (`DomainBuildInfo.ArchArm`).
* Six keyed unions: `Channelinfo`, `DomainBuildInfo`, `DeviceUsbdev`,
  `DeviceChannel`, `Event` and `PsrHwInfo`. Each is a struct with a tag field
  of an enumeration type and a field `<Tag>Union` of an interface type. The
  interface has one unexported marker method, and there is one variant struct
  per payload-bearing label. The variant implements the marker with an empty
  method on a **value receiver**, e.g.
  `func (x ChannelinfoConnectionUnionPty) isChannelinfoConnectionUnion(){}`.

Nothing in this file executes. The only behaviour around it is what Go code
does with values of the declared types, and that is what the modules model.

## Inventory

| Component (spec.md) | In the source | State | Operations | Status |
|---|---|---|---|---|
| Constant table | the 43 const blocks | none (immutable) | none | modelled (`XenlightEnums`) |
| Union strategy | the six keyed structs, interfaces, variants and marker methods | a Go value of a keyed struct: tag and payload | `x.Type = v`, `x.TypeUnion = t` with `t` nil, a variant value or a pointer to a variant | modelled (`XenlightUnions`, `KeyedUnion`) |
| Naming transformer | visible only through the names it produced | none | none | partly: the concatenation rules |
| Type emitter, plain structs | list fields as slices (`Disks []DeviceDisk`) | a struct value's list field: slice header and backing array | struct copy, `append`, element update, reslice, `= nil` | partly (`ListField`); the other fields are static |
| Schema model / generator | not in the repository | – | – | not modelled |
| Marshalling layer (fromC/toC) | not in the repository (spec §6) | – | – | not modelled |

Where the hard behaviour is:

* **Two unions are keyed by the same enumeration.** Channelinfo and
  DeviceChannel are both keyed by ChannelConnection, with different
  variants. Only the per-struct marker names keep each union closed.
* **The marker methods have value receivers.** Go puts a value-receiver
  method in the method set of the pointer type too, so
  `x.ConnectionUnion = &ChannelinfoConnectionUnionPty{}` compiles. The set of
  payloads is the variants *and* the pointers to them.
* **List fields are slices.** Copying a struct copies each slice header, so
  two struct values share a backing array until one of them appends past the
  capacity.

The hazards are listed with their source lines in `PROJECT.json`
("hazards").

## Modules

* `XenlightEnums`: each enumeration as one operator, a function from label
  to value, exactly as in the const block; `Enums` collects them by type
  name. `ConstName` is the constant-naming rule (type + label), `ZeroValue`
  the zero value of an `int` type.
* `XenlightUnions`: one record per keyed struct (tag field, tag enumeration,
  payload-bearing labels), and the names the generator built from it:
  `UnionIface` (struct + field + "Union"), `MarkerMethod` ("is" + interface),
  `VariantType` (interface + label). `PtrTo(t)` is the pointer type `*t`.
  `MethodSet(t)` is the set of marker methods of type `t`: those declared
  with receiver `t`, and for `t = *v` those declared with receiver `v`.
  `Implements(t, s)` is Go's assignability of `t` to the payload field of
  `s`.
* `KeyedUnion`: one Go value per keyed struct in `Structs`. `tag[s]` is its
  tag field and `payload[s]` the dynamic type of its payload field (`Nil`
  for nil). Init is the zero value (tag 0, nil payload, as `var x S`).
  `SetTag(s, v)` is `x.Type = v` for any declared constant or foreign
  integer. `SetUnion(s, t)` is `x.TypeUnion = t` for any type of the package
  with a marker method, value or pointer; its guard is the compiler's
  interface check.
* `ListField`: one list field per Go variable in `Vars`. `heap` holds the
  backing arrays, `hdr[x]` the slice header (array, length, capacity) of
  `x`'s field. The actions are `x = y` (`Assign`, copies the header),
  `append` (`AppendTo`: in place below capacity, otherwise `GrowArray`, a
  fresh array of capacity 1 or double), `x.Disks[i] = e` (`SetElem`, writes
  the shared array), `x.Disks = x.Disks[:n]` (`Truncate`) and
  `x.Disks = nil` (`Clear`). `expect[x]` is a history variable: the list `x`
  would hold if list fields were copied by value.
* `MCKeyedUnion`, `MCListField`: the model-checking instances.

## Runs

| Run | Module | Expect | Properties | What it shows |
|---|---|---|---|---|
| `union_closed` | MCKeyedUnion | pass | `TypeOK`, `PayloadBelongs` | however a program assigns tags and payloads, values or pointers, each payload field holds only nil or a variant (or pointer to a variant) of its own union; Channelinfo's Pty never reaches DeviceChannel although both are keyed by ChannelConnection |
| `union_match` | MCKeyedUnion | violation | `ExhaustiveMatch` | a type switch with one case per variant type misses a payload stored as a pointer to a variant |
| `value_semantics` | MCListField | violation | `ValueSemantics` | after `b = a`, `a.Disks[0] = d` is seen through `b` |

Mutants (each breaks its property under the run's own cfg):

* `TypeOK` of `union_closed`: `SetUnion` without its interface check
  (`SetUnionUnchecked`), as if the generator had typed the payload field as
  an empty interface.
* `PayloadBelongs` of `union_closed`: `MarkerMethod` named after the tag's
  enumeration instead of the struct (`MarkerMethodByEnum`). Channelinfo and
  DeviceChannel then share `isChannelConnectionUnion`, and TLC stores
  `ChannelinfoConnectionUnionPty` in `DeviceChannel.ConnectionUnion`.

### Findings

* `union_match` (spec gap, line 379 and the other ten marker methods): the
  value receivers put the marker in the method set of `*Variant`.
  `x.ConnectionUnion = &ChannelinfoConnectionUnionPty{}` compiles, and a
  type switch over the variant types, the exhaustive match spec §4.3 step 6
  and §9 expect at every consumption site, has no case for it. A value-type
  assertion on it returns `ok = false`. The spec presents the marker as
  making the set of variants closed and does not mention pointer variants.
* `value_semantics` (spec gap, line 1017): list fields are slices, so a
  struct copy shares the backing array. Spec §4.2 calls list fields
  insertion-order-preserving containers and says nothing about copies. The
  struct-valued fields of the same struct (`BInfo`) are copied by value.

### Bounds

* `union_closed`/`union_match`: Channelinfo, DeviceChannel and
  DomainBuildInfo. The first two are the pair keyed by one enumeration;
  DomainBuildInfo has three variants and a -1 sentinel. Foreign tags are 0
  (the zero value, no label of DomainType) and -2 (no label anywhere). Every
  payload type of the package is offered to every struct, so each cross-union
  assignment is tried. 6048 states, the whole space.
* `value_semantics`: two variables, two element values, length up to 3
  (capacities 0, 1, 2, 4, so both in-place and growing appends happen) and 4
  backing arrays. The violation needs four steps.

### Fairness

None. Every step is a call a Go program may or may not make, so no step is
guaranteed to happen, and no liveness property is stated.

## Not modelled, and why

* The marshalling layer (fromC/toC) and the generator: not in the
  repository. A model of either could only restate the spec. Properties
  about tag/payload agreement after a load would therefore check the spec's
  text and not this code, and were removed for that reason.
* A refinement of the keyed union into an abstract closed union: with the
  marshaller out of scope, the abstract union is the concrete one with type
  names replaced by labels. It would hold by construction.
* Tag/payload agreement as a property: spec §3, §6 and the §8 example say a
  mismatched tag and payload can be built and make their agreement the
  marshaller's job. An invariant that they agree would check a promise the
  spec does not make.
* Enumeration value uniqueness and package name uniqueness: the first is a
  fixed fact about the constant table, with no state; the second is
  enforced by the Go compiler.
* Typed nil pointers (`var p *DomainBuildInfoTypeUnionHvm; x.TypeUnion = p`,
  a non-nil interface holding a nil pointer) and types of other packages
  that embed a variant (embedding promotes the unexported marker): both are
  further ways past a value-type switch. The pointer run already shows that
  the switch is not exhaustive.
* The payload structs' own fields: abstracted to the variant's type name.
  No property distinguishes them.
* Plain struct fields other than lists: no operation beyond assignment and
  copy by value, so no property tells them apart.
* Defbool, Bitmap, Uuid, StringList and KeyValueList: hand-written types
  defined outside this repository.
* Element sizes of slices: growslice rounds capacities up to allocator size
  classes. That only makes capacities larger, so more appends write in
  place and copies share arrays for longer. The overwrite `value_semantics`
  finds happens at every capacity.

## Plan

1. Earlier sittings built the enumeration and union declarations, the
   keyed-union value model, and the slice model of list fields. They also
   built models of the marshaller's loads, of a byte payload field, and of
   the downcast-edit-attach sequence. Review showed that those checked
   either the spec's own text or facts that hold by construction, so they
   were removed.
2. Pointer payloads are now part of the union model.
3. Nothing further in the repository has state to model faithfully. What
   remains is static declarations or code outside the repository (see
   "Not modelled").
