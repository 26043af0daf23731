------------------------- MODULE ComponentRegistry -------------------------
(***************************************************************************)
(* ComponentRegistry and its RelationshipManager: one copy in the API, one *)
(* in the consumer.  The type under which a component is kept is left out: *)
(* queries go by name, over all types, and classes of one name are taken   *)
(* to be of one type.                                                      *)
(***************************************************************************)
EXTENDS Naturals, FiniteSets

CONSTANTS
  Names,          \* names of components
  Classes,        \* the classes that carry them; two may have the same name
  NoClass,        \* what a name with no component stands for
  NameOf,         \* __name__
  Compatible      \* COMPATIBLE_COMPONENTS, names that need not be registered

ASSUME RegistryAssumption ==
  /\ NoClass \notin Classes
  /\ NameOf \in [Classes -> Names]
  /\ Compatible \in [Classes -> SUBSET Names]
  /\ IsFiniteSet(Names) /\ IsFiniteSet(Classes)

\* classes is _registry; relations[a][b] is how often list _relations[a] has b.
Registry == [classes : [Names -> Classes \cup {NoClass}], relations : [Names -> [Names -> Nat]]]

EmptyRegistry ==
  [classes |-> [n \in Names |-> NoClass], relations |-> [a \in Names |-> [b \in Names |-> 0]]]

Registered(r) == {n \in Names : r.classes[n] # NoClass}

NamesOf(C) == {NameOf[c] : c \in C}
Named(C, n) == {c \in C : NameOf[c] = n}

\* The relations a class asks for, and those of several.
RelationsOf(C) == {p \in C \X Names : p[2] \in Compatible[p[1]]}

\* How often relations P enter b in the list of a: once for a class called a
\* that names b, once for a class called b that names a.
Entries(P, a, b) ==
  Cardinality({p \in P : NameOf[p[1]] = a /\ p[2] = b})
  + Cardinality({p \in P : NameOf[p[1]] = b /\ p[2] = a})

\* Mutant: the list of the other component is forgotten.
AddRelationsOneWay(relations, P) ==
  [a \in Names |-> [b \in Names |->
     relations[a][b] + Cardinality({p \in P : NameOf[p[1]] = a /\ p[2] = b})]]

\* add_relationship and remove_relationship for each of P.
AddRelations(relations, P) ==
  [a \in Names |-> [b \in Names |-> relations[a][b] + Entries(P, a, b)]]
RemoveRelations(relations, P) ==
  [a \in Names |-> [b \in Names |-> relations[a][b] - Entries(P, a, b)]]

HasRelations(relations, P) == \A a, b \in Names : Entries(P, a, b) <= relations[a][b]

Overwrite(classes, C) ==
  {[n \in Names |-> IF n \in NamesOf(C) THEN chosen[n] ELSE classes[n]] :
     chosen \in {f \in [NamesOf(C) -> C] : \A n \in NamesOf(C) : NameOf[f[n]] = n}}

\* register_component for each class of C, in the order of a Python set: the
\* last of one name stays, and the relations add to those there are.
RegisterAll(r, C) ==
  {[classes |-> classes, relations |-> AddRelations(r.relations, RelationsOf(C))] :
     classes \in Overwrite(r.classes, C)}

Pop(classes, C) == [n \in Names |-> IF n \in NamesOf(C) THEN NoClass ELSE classes[n]]

\* unregister_component for each class of C: whatever has its name is removed.
CanUnregister(r, C) ==
  NamesOf(C) \subseteq Registered(r) /\ HasRelations(r.relations, RelationsOf(C))

Unregister(r, C) ==
  [classes |-> Pop(r.classes, C), relations |-> RemoveRelations(r.relations, RelationsOf(C))]

\* Otherwise a ValueError comes out of one class of C: those before it are
\* gone, and of the last one popped some relations may be.
UnregisterRaises(r, C) ==
  {[classes |-> Pop(r.classes, x[1]), relations |-> RemoveRelations(r.relations, x[2])] :
     x \in {y \in (SUBSET C) \X (SUBSET RelationsOf(C)) :
             /\ NamesOf(y[1]) \subseteq Registered(r)
             /\ y[2] \subseteq RelationsOf(y[1]) /\ HasRelations(r.relations, y[2])
             /\ y[1] = {} \/ \E c \in y[1] : RelationsOf(y[1] \ {c}) \subseteq y[2]}}

\* What comes of unregistering C.
UnregisterAll(r, C) ==
  IF CanUnregister(r, C) THEN {Unregister(r, C)} ELSE UnregisterRaises(r, C)
=============================================================================
