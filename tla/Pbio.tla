------------------------------- MODULE Pbio -------------------------------
(***************************************************************************)
(* Protobuf objects, as the generated code uses them through Pbio_Add... , *)
(* Pbio_Get... and Pbio_Index... : for each field id the values that were  *)
(* added under it.  An object is a tuple, object[f] being the values of    *)
(* field f, or, where ids are not consecutive, a function; a field outside *)
(* the domain has no values.                                               *)
(*                                                                         *)
(* A worker::List is a sequence and a worker::Option a sequence of at most *)
(* one element.                                                            *)
(***************************************************************************)
EXTENDS Naturals, Sequences

Options(S) == { << >> } \cup { << v >> : v \in S }

(* (The concatenation has TLC evaluate the elements, once.)                *)
Each(Op(_), list) == << >> \o [ i \in DOMAIN list |-> Op(list[i]) ]

Count(object, field) == IF field \in DOMAIN object THEN Len(object[field]) ELSE 0

(* The last of the field's values is the one that counts.                  *)
Get(object, field, default) ==
  IF Count(object, field) = 0 THEN default ELSE object[field][Len(object[field])]

GetObject(object, field) == Get(object, field, << >>)

GetList(object, field) == IF Count(object, field) = 0 THEN << >> ELSE object[field]

GetOption(object, field) ==
  IF Count(object, field) = 0 THEN << >> ELSE << Get(object, field, << >>) >>

Bool(b) == IF b THEN 1 ELSE 0

(* What a component's vtable writes: an object under the component's id,   *)
(* and, for an update, the ids of the fields to clear and the state.       *)
Root(id, object) == [ c \in {id} |-> << object >> ]

UpdateRoot(id, fields_to_clear, state_object) ==
  << fields_to_clear, << Root(id, state_object) >> >>

StateObject(root, id) == GetObject(GetObject(root, 2), id)

(* Update::ApplyTo: what is present in the update replaces what was there. *)
Or(option, value) == IF option = << >> THEN value ELSE option[1]
=============================================================================
