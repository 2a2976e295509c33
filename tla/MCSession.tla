----------------------------- MODULE MCSession ------------------------------
(* Session, for TLC.                                                       *)
EXTENDS Session

(* The second histogram has its infinity in the middle, and is unsorted.   *)
MCBoundaries == [ k \in { "latency", "size" } |->
                    IF k = "latency" THEN << 1 >> ELSE << 2, 9, 1 >> ]

(* Two entities with positions, and one without.                           *)
MCFirstWorld ==
  << "Position" :> 1 @@ "Color" :> 7, "Position" :> 5 @@ "Hidden" :> 7 >>

MCNewEntities == { "Position" :> 2 @@ "Color" :> 8, "Unknown" :> 8 }

(* The constraints of the queries, of nesting depth up to five.            *)
MCConstraintLevels ==
  LET level1 == { Component("Color"), And(<< >>), Or(<< >>), Sphere(1, 1),
                  EntityId(1), EntityId(2), EntityId(3) }
      level2 == { Or(<< Component("Color"), And(<< >>) >>),
                  Or(<< EntityId(1), EntityId(3) >>),
                  Not(EntityId(1)), Not(Or(<< >>)) }
      level3 == { And(<< Sphere(1, 1), Or(<< EntityId(1), EntityId(3) >>) >>),
                  And(<< Sphere(1, 1), Not(EntityId(1)) >>) }
      level4 == { Not(And(<< Sphere(1, 1), Or(<< EntityId(1), EntityId(3) >>) >>)),
                  Or(<< And(<< Sphere(1, 1), Not(EntityId(1)) >>), EntityId(2) >>) }
      level5 == { And(<< Or(<< Component("Color"), And(<< >>) >>),
                         Not(And(<< Sphere(1, 1), Or(<< EntityId(1), EntityId(3) >>) >>)) >>) }
  IN  << level1, level2, level3, level4, level5 >>

MCQuerySet ==
  { [ Constraint |-> And(<< Or(<< Component("Color"), And(<< >>) >>),
                            Not(And(<< Sphere(1, 1), Or(<< EntityId(1), EntityId(3) >>) >>)) >>),
      ResultType |-> << >> ],
    [ Constraint |-> Or(<< And(<< Sphere(1, 1), Not(EntityId(1)) >>), EntityId(2) >>),
      ResultType |-> << << "Position", "Hidden" >> >> ],
    [ Constraint |-> Not(Or(<< >>)), ResultType |-> << << >> >> ],
    [ Constraint |-> Sphere(1, 1), ResultType |-> "count" ] }
=============================================================================
