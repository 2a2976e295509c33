---------------------------- MODULE ClientHandle ----------------------------
(***************************************************************************)
(* worker::detail::ClientHandle<T>: how an object of the user's gets into  *)
(* the SDK core.  A handle refers to an object the user owns and keeps     *)
(* (copyable_raw), to one he gives away (movable_raw), or to one that      *)
(* handles share, by a std::shared_ptr (shared); exactly one is not Null.  *)
(*                                                                         *)
(* A memory has the object at each address and, for the shared ones, the   *)
(* number of handles that share it; with 0 the address is free.            *)
(***************************************************************************)
EXTENDS ComponentData

CONSTANTS
  Addresses,   \* of objects
  Null         \* nullptr

Handles == [ copyable_raw : Addresses \cup {Null}, movable_raw : Addresses \cup {Null},
             shared : Addresses \cup {Null} ]

Memories == [ object : [ Addresses -> Data \cup Updates ], uses : [ Addresses -> Nat ] ]

copyable(raw) == [ copyable_raw |-> raw, movable_raw |-> Null, shared |-> Null ]

movable(raw) == [ copyable_raw |-> Null, movable_raw |-> raw, shared |-> Null ]

(* allocate, and the result of new_copy: a handle to a shared object.      *)
sharing(a) == [ copyable_raw |-> Null, movable_raw |-> Null, shared |-> a ]

Write(mem, a, object) ==
  [ object |-> [ mem.object EXCEPT ![a] = object ], uses |-> mem.uses ]

Count(mem, a, uses) ==
  [ object |-> mem.object, uses |-> [ mem.uses EXCEPT ![a] = uses ] ]

Store(mem, a, object, uses) == Count(Write(mem, a, object), a, uses)

(* Fault: the pointer to the user's object is promoted, not the object.    *)
PromoteInPlace(type, h, mem, a) ==
  LET raw == IF h.copyable_raw # Null THEN h.copyable_raw ELSE h.movable_raw
  IN  IF raw # Null THEN [ handle |-> sharing(raw), mem |-> Count(mem, raw, 1) ]
      ELSE [ handle |-> h, mem |-> mem ]

(* The handle refers to a shared object from now on, which is put at `a`   *)
(* if the handle did not have one.                                         *)
PromoteToShared(type, h, mem, a) ==
  IF h.copyable_raw # Null
  THEN [ handle |-> sharing(a),
         mem    |-> Store(mem, a, mem.object[h.copyable_raw], 1) ]
  ELSE IF h.movable_raw # Null
  THEN [ handle |-> sharing(a),
         mem    |-> Write(Store(mem, a, mem.object[h.movable_raw], 1),
                          h.movable_raw, MovedFrom(type)) ]
  ELSE [ handle |-> h, mem |-> mem ]

(* vtable Copy: the handle itself is promoted, and the copy shares.        *)
new_copy(type, h, mem, a) ==
  LET promoted == PromoteToShared(type, h, mem, a)
      s        == promoted.handle.shared
  IN  [ handle |-> promoted.handle, copy |-> sharing(s),
        mem |-> Count(promoted.mem, s, promoted.mem.uses[s] + 1) ]

(* vtable Free, and the destructor: the last handle deletes the object.    *)
free(h, mem) ==
  IF h.shared = Null THEN mem
  ELSE Store(mem, h.shared,
             IF mem.uses[h.shared] = 1 THEN EmptyUpdate ELSE mem.object[h.shared],
             mem.uses[h.shared] - 1)

get(h, mem) ==
  mem.object[IF h.copyable_raw # Null THEN h.copyable_raw
             ELSE IF h.movable_raw # Null THEN h.movable_raw ELSE h.shared]

(* Fault: the object is read after it was moved from.                      *)
StealLate(type, h, mem, a) ==
  LET left == Write(mem, h.shared, MovedFrom(type))
  IN  [ handle |-> h, object |-> get(h, left), mem |-> left ]

(* std::move(get_mutable()): the object, and what is left of it.  What the *)
(* user keeps is copied first, which leaves the copy to be moved from.     *)
steal(type, h, mem, a) ==
  LET own == IF h.copyable_raw = Null THEN [ handle |-> h, mem |-> mem ]
             ELSE PromoteToShared(type, h, mem, a)
      at  == IF own.handle.movable_raw # Null THEN own.handle.movable_raw
             ELSE own.handle.shared
  IN  [ handle |-> own.handle, object |-> own.mem.object[at],
        mem |-> Write(own.mem, at, MovedFrom(type)) ]
=============================================================================
