------------------------------ MODULE ListField ------------------------------
(***************************************************************************)
(* The list fields of the structs of types.gen.go, e.g. the device lists  *)
(* of DomainConfig (Disks []DeviceDisk, Nics []DeviceNic, ...).  The      *)
(* generator emits a list field as a Go slice: a header of a pointer to a *)
(* backing array, a length and a capacity, stored in the struct.  Copying *)
(* the struct copies the header, not the array, so two struct values can  *)
(* share one backing array.  append writes in place while the length is  *)
(* below the capacity and moves to a fresh, larger array otherwise.       *)
(*                                                                         *)
(* The model keeps one list field of one struct value per Go variable in  *)
(* Vars.  heap is the sequence of backing arrays allocated so far (array  *)
(* i is heap[i], a sequence of cap slots), hdr[x] is the slice header of  *)
(* x's field (arr = 0 for a nil slice).  expect[x] is a history variable: *)
(* the list x would hold if the field had value semantics, the           *)
(* "insertion-order-preserving container" of spec.md section 4.2.         *)
(***************************************************************************)
EXTENDS Integers, SequencesExt

CONSTANTS
    Vars,       \* Go variables of the struct type, e.g. {a, b} of type DomainConfig
    Elems,      \* element values, e.g. DeviceDisk values
    ZeroElem,   \* the element type's zero value, held by unwritten slots
    MaxLen,     \* bound on a slice's length
    MaxArrays   \* bound on the number of backing arrays allocated

ASSUME ZeroElem \notin Elems
ASSUME MaxLen \in Nat /\ MaxArrays \in Nat

VARIABLES heap, hdr, expect

vars == <<heap, hdr, expect>>

NilSlice == [arr |-> 0, len |-> 0, cap |-> 0]

(* The elements visible through x's slice: x.Disks[0:len(x.Disks)]. *)
View(x) == IF hdr[x].arr = 0 THEN <<>> ELSE SubSeq(heap[hdr[x].arr], 1, hdr[x].len)

(* The fresh backing array of append(x.Disks, e) on a full slice: the old *)
(* elements, then e, then zero values up to the new capacity, which       *)
(* growslice, for a small slice growing by one, sets to 1 for a nil or    *)
(* empty slice and doubles otherwise.                                      *)
GrowArray(x, e) ==
    LET old == View(x)
        nc  == IF hdr[x].cap = 0 THEN 1 ELSE 2 * hdr[x].cap
    IN  [i \in 1..nc |-> IF i <= Len(old) THEN old[i]
                         ELSE IF i = Len(old) + 1 THEN e ELSE ZeroElem]

(* var a DomainConfig: every list field is nil. *)
Init ==
    /\ heap = <<>>
    /\ hdr = [x \in Vars |-> NilSlice]
    /\ expect = [x \in Vars |-> <<>>]

(* x = y: the struct is copied by value, its slice header with it. *)
Assign(x, y) ==
    /\ x # y
    /\ hdr' = [hdr EXCEPT ![x] = hdr[y]]
    /\ expect' = [expect EXCEPT ![x] = expect[y]]
    /\ UNCHANGED heap

(* x.Disks = append(x.Disks, e) *)
AppendTo(x, e) ==
    /\ hdr[x].len < MaxLen
    /\ expect' = [expect EXCEPT ![x] = Append(@, e)]
    /\ \/ /\ hdr[x].len < hdr[x].cap
          /\ heap' = [heap EXCEPT ![hdr[x].arr][hdr[x].len + 1] = e]
          /\ hdr' = [hdr EXCEPT ![x].len = @ + 1]
       \/ /\ hdr[x].len = hdr[x].cap
          /\ Len(heap) < MaxArrays
          /\ heap' = Append(heap, GrowArray(x, e))
          /\ hdr' = [hdr EXCEPT ![x] = [arr |-> Len(heap) + 1,
                                        len |-> hdr[x].len + 1,
                                        cap |-> Len(GrowArray(x, e))]]

(* x.Disks[i-1] = e, for an index within the length. *)
SetElem(x, i, e) ==
    /\ i \in 1..hdr[x].len
    /\ heap' = [heap EXCEPT ![hdr[x].arr][i] = e]
    /\ expect' = [expect EXCEPT ![x][i] = e]
    /\ UNCHANGED hdr

(* x.Disks = x.Disks[:n]: shorter length, same array and capacity. *)
Truncate(x, n) ==
    /\ n \in 0..(hdr[x].len - 1)
    /\ hdr' = [hdr EXCEPT ![x].len = n]
    /\ expect' = [expect EXCEPT ![x] = SubSeq(@, 1, n)]
    /\ UNCHANGED heap

(* x.Disks = nil *)
Clear(x) ==
    /\ hdr[x] # NilSlice
    /\ hdr' = [hdr EXCEPT ![x] = NilSlice]
    /\ expect' = [expect EXCEPT ![x] = <<>>]
    /\ UNCHANGED heap

Next ==
    \E x \in Vars :
        \/ \E y \in Vars : Assign(x, y)
        \/ \E e \in Elems : AppendTo(x, e)
        \/ \E i \in 1..MaxLen, e \in Elems : SetElem(x, i, e)
        \/ \E n \in 0..MaxLen : Truncate(x, n)
        \/ Clear(x)

Spec == Init /\ [][Next]_vars

-----------------------------------------------------------------------------
(* Value semantics of list fields: every struct value's list is the list *)
(* of insertions and updates made through that value and the values it  *)
(* was copied from (spec.md 4.2: an insertion-order-preserving           *)
(* container).  Go slices share their backing array between copies.     *)
ValueSemantics == \A x \in Vars : View(x) = expect[x]

=============================================================================
