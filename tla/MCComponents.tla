---------------------------- MODULE MCComponents ----------------------------
(***************************************************************************)
(* Components on maps of interest that hold a constraint of every kind,    *)
(* and constraints nested two levels deep.                                 *)
(***************************************************************************)
EXTENDS Components

MCDoubles == { 0, 1 }
MCInt64s == { 0 }
MCStrings == { "", "a" }
MCUint32s == { 0, 5 }

Only(field, value) == [ NewQueryConstraint EXCEPT ![field] = << value >> ]

Somewhere == [ x |-> 0, y |-> 1, z |-> 0 ]

EveryKind ==
  << Only("sphere_constraint", [ center |-> Somewhere, radius |-> 1 ]),
     Only("cylinder_constraint", [ center |-> Somewhere, radius |-> 1 ]),
     Only("box_constraint", [ center |-> Somewhere, edge_length |-> Somewhere ]),
     Only("relative_sphere_constraint", [ radius |-> 1 ]),
     Only("relative_cylinder_constraint", [ radius |-> 1 ]),
     Only("relative_box_constraint", [ edge_length |-> Somewhere ]),
     Only("entity_id_constraint", 0),
     Only("component_constraint", 5) >>

Nested ==
  [ NewQueryConstraint EXCEPT
      !.and_constraint = << [ NewQueryConstraint EXCEPT !.or_constraint = EveryKind ],
                            NewQueryConstraint >>,
      !.or_constraint  = << Only("entity_id_constraint", 0) >> ]

FullQuery ==
  [ constraint |-> Nested, full_snapshot_result |-> << FALSE >>,
    result_component_id |-> << 5, 0, 5 >>, frequency |-> << 0 >> ]

ResultQuery ==
  [ constraint |-> Only("component_constraint", 0),
    full_snapshot_result |-> << TRUE >>, result_component_id |-> << >>,
    frequency |-> << >> ]

MCConstraintLevels ==
  << { EveryKind[i] : i \in DOMAIN EveryKind } \cup
       { NewQueryConstraint, Only("component_constraint", 0) },
     { [ NewQueryConstraint EXCEPT !.or_constraint = EveryKind ] },
     { Nested } >>

MCInterestMaps ==
  { << >>,
    << << 0, NewComponentInterest >> >>,
    << << 5, [ queries |-> << FullQuery, ResultQuery, NewQuery >> ] >>,
       << 0, NewComponentInterest >> >> }
=============================================================================
