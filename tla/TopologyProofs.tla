--------------------------- MODULE TopologyProofs ---------------------------
(***************************************************************************)
(* What a refresh does to the dictionary of node clients, for the proofs   *)
(* about both smart clients.                                               *)
(***************************************************************************)
EXTENDS Topology, TLAPS

\* The clients created when "made" counts them.
Creations(made) == UNION {{<<t, n>> : n \in 1..made[t]} : t \in Targets}

\* A dictionary keeps, under each target, a client that was created for it.
KeyedBy(table, made) ==
    \A t \in Targets : table[t] # NoClient => table[t][1] = t /\ table[t] \in Creations(made)

\* The clients that leave a dictionary for a topology with these targets.
Leaving(table, targets) == {table[t] : t \in Absent(table, targets)}

\* Creations, without the union.
LEMMA CreationsIff ==
    ASSUME NEW made \in [Targets -> Nat], NEW x
    PROVE  x \in Creations(made) <=> x \in Client /\ x[2] <= made[x[1]]
<1>1. ASSUME x \in Creations(made) PROVE x \in Client /\ x[2] <= made[x[1]]
  <2>1. PICK t \in Targets : x \in {<<t, n>> : n \in 1..made[t]}
    BY <1>1 DEF Creations
  <2>2. PICK n \in 1..made[t] : x = <<t, n>>
    BY <2>1
  <2> QED
    BY <2>2 DEF Client
<1>2. ASSUME x \in Client, x[2] <= made[x[1]] PROVE x \in Creations(made)
  <2>1. x = <<x[1], x[2]>> /\ x[1] \in Targets /\ x[2] \in 1..made[x[1]]
    BY <1>2 DEF Client
  <2>2. x \in {<<x[1], n>> : n \in 1..made[x[1]]}
    BY <2>1
  <2> QED
    BY <2>1, <2>2 DEF Creations
<1> QED
  BY <1>1, <1>2

\* Replacing a dictionary (_apply_topology): what it offers afterwards is new, or
\* was offered and does not leave; what it offered is still there or leaves; and
\* nothing else is created.
LEMMA ReplacedTable ==
    ASSUME NEW table \in [Targets -> Client \cup {NoClient}],
           NEW made \in [Targets -> Nat], KeyedBy(table, made),
           NEW targets, NEW created,
           \A t \in Targets : t \in created => table[t] = NoClient,
           NEW table2, table2 = TableWith(table, made, targets, created),
           NEW made2, made2 = MadeWith(made, created)
    PROVE  /\ table2 \in [Targets -> Client \cup {NoClient}]
           /\ made2 \in [Targets -> Nat]
           /\ KeyedBy(table2, made2)
           /\ Creations(made) \subseteq Creations(made2)
           /\ Creations(made2) \subseteq Creations(made) \cup Held(table2)
           /\ \A x \in Held(table2) :
                 x \notin Creations(made) \/ x \in Held(table) \ Leaving(table, targets)
           /\ Held(table) \subseteq Held(table2) \cup Leaving(table, targets)
           /\ Leaving(table, targets) \subseteq Held(table)
           /\ Held(table) \subseteq Creations(made)
<1> DEFINE Gone == Absent(table, targets)
<1>1. /\ made2 \in [Targets -> Nat]
      /\ \A t \in Targets : made[t] <= made2[t]
  BY DEF MadeWith
<1>2. ASSUME NEW t \in Targets
      PROVE  table2[t] = IF t \in Gone THEN NoClient
                         ELSE IF t \in created THEN <<t, made[t] + 1>> ELSE table[t]
  BY DEF TableWith
<1>3. ASSUME NEW x
      PROVE  /\ x \in Creations(made) <=> x \in Client /\ x[2] <= made[x[1]]
             /\ x \in Creations(made2) <=> x \in Client /\ x[2] <= made2[x[1]]
  BY <1>1, CreationsIff
<1>4. Creations(made) \subseteq Creations(made2)
  <2> SUFFICES ASSUME NEW x \in Creations(made) PROVE x \in Creations(made2)
    OBVIOUS
  <2>1. x \in Client /\ x[2] <= made[x[1]]
    BY <1>3
  <2>2. x[1] \in Targets /\ x[2] \in Nat
    BY <2>1 DEF Client
  <2>3. made[x[1]] \in Nat /\ made2[x[1]] \in Nat /\ made[x[1]] <= made2[x[1]]
    BY <1>1, <2>2
  <2>4. x[2] <= made2[x[1]]
    BY <2>1, <2>2, <2>3
  <2> QED
    BY <1>3, <2>1, <2>4
<1>5. ASSUME NEW t \in Targets, t \in created
      PROVE  /\ <<t, made[t] + 1>> \in Client
             /\ <<t, made[t] + 1>> \notin Creations(made)
             /\ <<t, made[t] + 1>> \in Creations(made2)
             /\ <<t, made[t] + 1>> # NoClient
             /\ table2[t] = <<t, made[t] + 1>>
  <2>1. table[t] = NoClient /\ made[t] \in Nat
    BY <1>5
  <2>2. made2[t] = made[t] + 1
    BY <1>5 DEF MadeWith
  <2>3. t \notin Gone
    BY <2>1 DEF Absent
  <2>4. table2[t] = <<t, made[t] + 1>>
    BY <1>2, <1>5, <2>3
  <2>5. <<t, made[t] + 1>> \in Client /\ <<t, made[t] + 1>> # NoClient
    BY <2>1, TargetAssumption DEF Client, NoClient
  <2> QED
    BY <1>3, <2>1, <2>2, <2>4, <2>5
<1>6. table2 \in [Targets -> Client \cup {NoClient}]
  <2>1. \A t \in Targets : table2[t] \in Client \cup {NoClient}
    BY <1>2, <1>5
  <2>2. table2 = [t \in Targets |-> table2[t]]
    BY DEF TableWith
  <2> QED
    BY <2>1, <2>2
<1>7. KeyedBy(table2, made2)
  <2> SUFFICES ASSUME NEW t \in Targets, table2[t] # NoClient
               PROVE  table2[t][1] = t /\ table2[t] \in Creations(made2)
    BY DEF KeyedBy
  <2>1. CASE t \in created
    <3>1. table2[t] = <<t, made[t] + 1>> /\ table2[t] \in Creations(made2)
      BY <1>5, <2>1
    <3> QED
      BY <3>1
  <2>2. CASE t \notin created
    <3>1. table2[t] = table[t] /\ table[t] # NoClient
      BY <1>2, <2>2
    <3> QED
      BY <1>4, <3>1 DEF KeyedBy
  <2> QED
    BY <2>1, <2>2
<1>8. \A x \in Held(table2) :
         x \notin Creations(made) \/ x \in Held(table) \ Leaving(table, targets)
  <2> SUFFICES ASSUME NEW t \in Targets, table2[t] # NoClient
               PROVE  \/ table2[t] \notin Creations(made)
                      \/ table2[t] \in Held(table) \ Leaving(table, targets)
    BY DEF Held
  <2>1. CASE t \in created
    BY <1>5, <2>1
  <2>2. CASE t \notin created
    <3>1. table2[t] = table[t] /\ t \notin Gone
      BY <1>2, <2>2
    <3>2. table[t] \in Held(table)
      BY <3>1 DEF Held
    <3>3. table[t] \notin Leaving(table, targets)
      <4> SUFFICES ASSUME NEW u \in Gone, table[u] = table[t] PROVE FALSE
        BY DEF Leaving
      <4>1. u \in Targets /\ table[u][1] = u /\ table[t][1] = t
        BY <3>1 DEF Absent, KeyedBy
      <4> QED
        BY <3>1, <4>1
    <3> QED
      BY <3>1, <3>2, <3>3
  <2> QED
    BY <2>1, <2>2
<1>9. Held(table) \subseteq Held(table2) \cup Leaving(table, targets)
  <2> SUFFICES ASSUME NEW t \in Targets, table[t] # NoClient, t \notin Gone
               PROVE  table[t] \in Held(table2)
    BY DEF Held, Leaving
  <2>1. table2[t] = table[t]
    BY <1>2
  <2> QED
    BY <2>1 DEF Held
<1>10. Creations(made2) \subseteq Creations(made) \cup Held(table2)
  <2> SUFFICES ASSUME NEW x \in Creations(made2), x \notin Creations(made)
               PROVE  x \in Held(table2)
    OBVIOUS
  <2>1. x \in Client /\ x[2] <= made2[x[1]] /\ ~(x[2] <= made[x[1]])
    BY <1>3
  <2>2. x = <<x[1], x[2]>> /\ x[1] \in Targets /\ x[2] \in Nat
    BY <2>1 DEF Client
  <2>3. made2[x[1]] = IF x[1] \in created THEN made[x[1]] + 1 ELSE made[x[1]]
    BY <2>2 DEF MadeWith
  <2>4. made[x[1]] \in Nat
    BY <2>2
  <2>5. x[1] \in created /\ x[2] = made[x[1]] + 1
    BY <2>1, <2>2, <2>3, <2>4
  <2> QED
    BY <1>5, <2>2, <2>5 DEF Held
<1>11. Leaving(table, targets) \subseteq Held(table) /\ Held(table) \subseteq Creations(made)
  BY DEF Leaving, Absent, Held, KeyedBy
<1> QED
  BY <1>1, <1>4, <1>6, <1>7, <1>8, <1>9, <1>10, <1>11
=============================================================================
