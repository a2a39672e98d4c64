---------------------------- MODULE SchemaProofs ----------------------------
(***************************************************************************)
(* What the revisions make of a database.  First how a sequence of         *)
(* operations that all create, or all drop, runs, and how two run one      *)
(* after the other; then each revision up and down: it applies to a        *)
(* database that is AtRevision its predecessor, or itself, whatever else   *)
(* there is.                                                               *)
(***************************************************************************)
EXTENDS Schema, SequenceLemmas

-----------------------------------------------------------------------------
(* Running operations *)

\* The objects of the first n operations.
Objects(ops, n) == {ops[k].object : k \in 1..n}

\* The recursion of Stages has a solution: a loop over sets of objects.
LEMMA StagesLoop ==
    ASSUME NEW ops, NEW O, Len(ops) \in Nat
    PROVE  Stages(ops, O) = [n \in 0..Len(ops) |->
               IF n = 0 THEN O ELSE Effect(ops[n], Stages(ops, O)[n - 1])]
<1> DEFINE St == SUBSET (O \cup Objects(ops, Len(ops)))
<1> DEFINE step == [x \in St \X (1..Len(ops)) |-> Effect(ops[x[2]], x[1])]
<1> DEFINE G(f) == [n \in 0..Len(ops) |-> IF n = 0 THEN O ELSE Effect(ops[n], f[n - 1])]
<1>1. step \in LoopTurns(St, Len(ops)) /\ O \in St
  BY DEF Effect, Objects, LoopTurns
<1>2. PICK f : LoopRun(f, St, Len(ops), O, step)
  <2> HIDE DEF St, step
  <2> QED
    BY <1>1, LoopRuns
<1>3. f = G(f)
  <2>1. f \in [0..Len(ops) -> St] /\ f[0] = O
    BY <1>2 DEF LoopRun
  <2>2. \A i \in 1..Len(ops) : f[i] = Effect(ops[i], f[i - 1])
    <3> TAKE i \in 1..Len(ops)
    <3>1. i - 1 \in 0..Len(ops) /\ <<f[i - 1], i>> \in St \X (1..Len(ops))
      BY <2>1
    <3>2. f[i] = step[<<f[i - 1], i>>]
      BY <1>2 DEF LoopRun
    <3> QED
      BY <3>1, <3>2
  <2> QED
    BY <2>1, <2>2
<1>4. Stages(ops, O) = CHOOSE g : g = G(g)
  BY DEF Stages
<1> HIDE DEF G
<1>5. Stages(ops, O) = G(Stages(ops, O))
  BY <1>3, <1>4, Zenon
<1> QED
  BY <1>5 DEF G

\* The two equations of Stages.
LEMMA StagesAre ==
    ASSUME NEW ops, NEW O, Len(ops) \in Nat
    PROVE  /\ Stages(ops, O)[0] = O
           /\ \A n \in 1..Len(ops) :
                Stages(ops, O)[n] = Effect(ops[n], Stages(ops, O)[n - 1])
  BY StagesLoop

\* Operations that create add up.
LEMMA Creating ==
    ASSUME NEW ops, NEW O, Len(ops) \in Nat, \A k \in 1..Len(ops) : ops[k].do = "create"
    PROVE  \A n \in 0..Len(ops) : Stages(ops, O)[n] = O \cup Objects(ops, n)
<1> DEFINE T == {n \in 0..Len(ops) : Stages(ops, O)[n] = O \cup Objects(ops, n)}
<1>1. 0 \in T
  BY StagesAre DEF Objects
<1>2. ASSUME NEW i \in 1..Len(ops), i - 1 \in T
      PROVE  i \in T
  <2>1. Objects(ops, i) = Objects(ops, i - 1) \cup {ops[i].object}
    BY DEF Objects
  <2>2. Stages(ops, O)[i] = Effect(ops[i], Stages(ops, O)[i - 1])
    BY StagesAre
  <2>3. Effect(ops[i], Stages(ops, O)[i - 1]) = Stages(ops, O)[i - 1] \cup {ops[i].object}
    BY DEF Effect
  <2>4. Stages(ops, O)[i - 1] = O \cup Objects(ops, i - 1)
    BY <1>2
  <2> QED
    BY <2>1, <2>2, <2>3, <2>4
<1> HIDE DEF T
<1>3. 0..Len(ops) \subseteq T
  BY <1>1, <1>2, Induction
<1> QED
  BY <1>3 DEF T

\* Operations that drop leave what none of them removes.
LEMMA Dropping ==
    ASSUME NEW ops, NEW O, Len(ops) \in Nat, \A k \in 1..Len(ops) : ops[k].do = "drop"
    PROVE  \A n \in 0..Len(ops) :
               Stages(ops, O)[n] = {o \in O : \A k \in 1..n : ~Removes(ops[k], o)}
<1> DEFINE Left(n) == {o \in O : \A k \in 1..n : ~Removes(ops[k], o)}
<1> DEFINE T == {n \in 0..Len(ops) : Stages(ops, O)[n] = Left(n)}
<1>1. 0 \in T
  BY StagesAre
<1>2. ASSUME NEW i \in 1..Len(ops), i - 1 \in T
      PROVE  i \in T
  <2>1. Left(i) = {o \in Left(i - 1) : ~Removes(ops[i], o)}
    OBVIOUS
  <2>2. Stages(ops, O)[i] = Effect(ops[i], Stages(ops, O)[i - 1])
    BY StagesAre
  <2>3. Effect(ops[i], Stages(ops, O)[i - 1])
          = {o \in Stages(ops, O)[i - 1] : ~Removes(ops[i], o)}
    BY DEF Effect
  <2>4. Stages(ops, O)[i - 1] = Left(i - 1)
    BY <1>2
  <2>5. Stages(ops, O)[i] = Left(i)
    BY <2>1, <2>2, <2>3, <2>4, Zenon
  <2> QED
    BY <2>5
<1> HIDE DEF T
<1>3. 0..Len(ops) \subseteq T
  BY <1>1, <1>2, Induction
<1> QED
  BY <1>3 DEF T


-----------------------------------------------------------------------------
(* One sequence after another *)

IsSequence(s) == \E X : s \in Seq(X)

\* Where the elements of a concatenation come from.
LEMMA Sequences ==
    ASSUME NEW s, NEW t, IsSequence(s), IsSequence(t)
    PROVE  /\ IsSequence(s \o t) /\ Len(s) \in Nat /\ Len(t) \in Nat
           /\ Len(s \o t) = Len(s) + Len(t)
           /\ \A i \in 1..Len(s) : (s \o t)[i] = s[i]
           /\ \A i \in 1..Len(t) : (s \o t)[Len(s) + i] = t[i]
<1>1. PICK X, Y : s \in Seq(X) /\ t \in Seq(Y)
  BY DEF IsSequence
<1>2. s \in Seq(X \cup Y) /\ t \in Seq(X \cup Y)
  BY <1>1
<1>3. /\ s \o t \in Seq(X \cup Y)
      /\ Len(s \o t) = Len(s) + Len(t) /\ Len(s) \in Nat /\ Len(t) \in Nat
      /\ \A i \in 1..(Len(s) + Len(t)) :
            (s \o t)[i] = IF i <= Len(s) THEN s[i] ELSE t[i - Len(s)]
  BY <1>2, ConcatProperties, LenProperties
<1> DEFINE st == s \o t
<1> HIDE DEF st
<1>4. \A i \in 1..Len(s) : st[i] = s[i]
  BY <1>3 DEF st
<1>5. \A i \in 1..Len(t) : st[Len(s) + i] = t[i]
  <2> TAKE i \in 1..Len(t)
  <2>1. Len(s) + i \in 1..(Len(s) + Len(t)) /\ ~(Len(s) + i <= Len(s))
        /\ Len(s) + i - Len(s) = i
    BY <1>3
  <2> QED
    BY <1>3, <2>1 DEF st
<1> QED
  BY <1>3, <1>4, <1>5 DEF st, IsSequence

\* The operations all apply, and make P of O.
Yields(ops, O, P) == Migrated(ops, O) = {P}

\* Operations that all apply lead to the last stage.
LEMMA Migrates ==
    ASSUME NEW ops, NEW O, Len(ops) \in Nat,
           \A n \in 1..Len(ops) : Applies(ops[n], Stages(ops, O)[n - 1])
    PROVE  Yields(ops, O, Stages(ops, O)[Len(ops)])
  BY DEF Migrated, Yields

\* Operations that create apply if nothing is there twice and what they refer
\* to is there.
LEMMA Creates ==
    ASSUME NEW ops, NEW O, Len(ops) \in Nat,
           \A n \in 1..Len(ops) :
               /\ ops[n].do = "create"
               /\ \/ ops[n].lenient
                  \/ ops[n].object \notin O \cup Objects(ops, n - 1)
               /\ \A t \in ops[n].refs : Table(t) \in O \cup Objects(ops, n - 1)
    PROVE  Yields(ops, O, O \cup Objects(ops, Len(ops)))
<1>1. \A n \in 0..Len(ops) : Stages(ops, O)[n] = O \cup Objects(ops, n)
  BY Creating
<1>2. ASSUME NEW n \in 1..Len(ops)
      PROVE  Applies(ops[n], Stages(ops, O)[n - 1])
  <2>1. Stages(ops, O)[n - 1] = O \cup Objects(ops, n - 1)
    BY <1>1
  <2> QED
    BY <2>1 DEF Applies, HasTable
<1>3. Yields(ops, O, Stages(ops, O)[Len(ops)])
  BY <1>2, Migrates
<1>4. Stages(ops, O)[Len(ops)] = O \cup Objects(ops, Len(ops))
  BY <1>1
<1> QED
  BY <1>3, <1>4

\* One migration after another, in one transaction.
LEMMA Joined ==
    ASSUME NEW s, NEW t, IsSequence(s), IsSequence(t), NEW O, NEW P, NEW Q,
           Yields(s, O, P), Yields(t, P, Q)
    PROVE  Yields(s \o t, O, Q)
<1> DEFINE st == s \o t
<1>1. /\ Len(s) \in Nat /\ Len(t) \in Nat /\ Len(st) \in Nat
      /\ Len(st) = Len(s) + Len(t)
      /\ \A i \in 1..Len(s) : st[i] = s[i]
      /\ \A i \in 1..Len(t) : st[Len(s) + i] = t[i]
  BY Sequences
<1> HIDE DEF st
<1>2. /\ \A n \in 1..Len(s) : Applies(s[n], Stages(s, O)[n - 1])
      /\ Stages(s, O)[Len(s)] = P
  BY DEF Migrated, Yields
<1>3. /\ \A n \in 1..Len(t) : Applies(t[n], Stages(t, P)[n - 1])
      /\ Stages(t, P)[Len(t)] = Q
  BY DEF Migrated, Yields
<1>0. \A n \in 1..Len(st) : Stages(st, O)[n] = Effect(st[n], Stages(st, O)[n - 1])
  <2>1. Len(st) \in Nat
    BY <1>1
  <2> QED
    BY <2>1, StagesAre
<1>4. \A n \in 0..Len(s) : Stages(st, O)[n] = Stages(s, O)[n]
  <2> DEFINE T == {n \in 0..Len(s) : Stages(st, O)[n] = Stages(s, O)[n]}
  <2>1. 0 \in T
    BY <1>1, StagesAre
  <2>2. ASSUME NEW i \in 1..Len(s), i - 1 \in T
        PROVE  i \in T
    <3>1. Stages(s, O)[i] = Effect(s[i], Stages(s, O)[i - 1])
      BY <1>1, StagesAre
    <3>2. Stages(st, O)[i] = Effect(st[i], Stages(st, O)[i - 1])
      <4>1. i \in 1..Len(st)
        BY <1>1
      <4> QED
        BY <1>0, <4>1
    <3>3. st[i] = s[i] /\ Stages(st, O)[i - 1] = Stages(s, O)[i - 1]
      BY <1>1, <2>2
    <3> QED
      BY <3>1, <3>2, <3>3
  <2> HIDE DEF T
  <2>3. 0..Len(s) \subseteq T
    BY <1>1, <2>1, <2>2, Induction
  <2> QED
    BY <2>3 DEF T
<1>5. \A n \in 0..Len(t) : Stages(st, O)[Len(s) + n] = Stages(t, P)[n]
  <2> DEFINE T == {n \in 0..Len(t) : Stages(st, O)[Len(s) + n] = Stages(t, P)[n]}
  <2>1. 0 \in T
    BY <1>1, <1>2, <1>4, StagesAre
  <2>2. ASSUME NEW i \in 1..Len(t), i - 1 \in T
        PROVE  i \in T
    <3>1. Stages(t, P)[i] = Effect(t[i], Stages(t, P)[i - 1])
      BY <1>1, StagesAre
    <3>2. Len(st) \in Nat /\ Len(s) + i \in 1..Len(st) /\ Len(s) + i - 1 = Len(s) + (i - 1)
      BY <1>1
    <3>3. Stages(st, O)[Len(s) + i] = Effect(st[Len(s) + i], Stages(st, O)[Len(s) + i - 1])
      BY <1>0, <3>2
    <3>4. st[Len(s) + i] = t[i] /\ Stages(st, O)[Len(s) + i - 1] = Stages(t, P)[i - 1]
      BY <1>1, <2>2, <3>2
    <3> QED
      BY <3>1, <3>3, <3>4
  <2> HIDE DEF T
  <2>3. 0..Len(t) \subseteq T
    BY <1>1, <2>1, <2>2, Induction
  <2> QED
    BY <2>3 DEF T
<1>6. ASSUME NEW n \in 1..Len(st)
      PROVE  Applies(st[n], Stages(st, O)[n - 1])
  <2>1. CASE n <= Len(s)
    <3>1. n \in 1..Len(s) /\ n - 1 \in 0..Len(s)
      BY <1>1, <2>1
    <3>2. st[n] = s[n] /\ Stages(st, O)[n - 1] = Stages(s, O)[n - 1]
      BY <1>1, <1>4, <3>1
    <3> QED
      BY <1>2, <3>1, <3>2
  <2>2. CASE n > Len(s)
    <3> DEFINE m == n - Len(s)
    <3>1. m \in 1..Len(t) /\ m - 1 \in 0..Len(t) /\ n = Len(s) + m /\ n - 1 = Len(s) + (m - 1)
      BY <1>1, <2>2
    <3> HIDE DEF m
    <3>2. st[n] = t[m] /\ Stages(st, O)[n - 1] = Stages(t, P)[m - 1]
      BY <1>1, <1>5, <3>1
    <3> QED
      BY <1>3, <3>1, <3>2
  <2> QED
    BY <1>1, <2>1, <2>2
<1>7. Stages(st, O)[Len(st)] = Q
  BY <1>1, <1>3, <1>5
<1>8. Yields(st, O, Stages(st, O)[Len(st)])
  BY <1>1, <1>6, Migrates
<1> QED
  BY <1>7, <1>8 DEF st

\* Dropping indexes that are there.
LEMMA DropIndexes ==
    ASSUME NEW ops, NEW O, Len(ops) \in Nat,
           \A n \in 1..Len(ops) :
               /\ ops[n].do = "drop" /\ ops[n].object[1] = "index"
               /\ ops[n].lenient \/ ops[n].object \in O
               /\ \A k \in 1..(n - 1) : ops[k].object # ops[n].object
    PROVE  Yields(ops, O, O \ Objects(ops, Len(ops)))
<1>1. \A n \in 0..Len(ops) : Stages(ops, O)[n] = {o \in O : \A k \in 1..n : ~Removes(ops[k], o)}
  BY Dropping
<1>2. ASSUME NEW n \in 1..Len(ops)
      PROVE  Applies(ops[n], Stages(ops, O)[n - 1])
  <2>1. Stages(ops, O)[n - 1] = {o \in O : \A k \in 1..(n - 1) : ~Removes(ops[k], o)}
    BY <1>1
  <2>2. ops[n].lenient \/ ops[n].object \in Stages(ops, O)[n - 1]
    BY <2>1 DEF Removes
  <2> QED
    BY <2>2 DEF Applies
<1>3. Stages(ops, O)[Len(ops)] = O \ Objects(ops, Len(ops))
  BY <1>1 DEF Removes, Objects
<1>4. Yields(ops, O, Stages(ops, O)[Len(ops)])
  BY <1>2, Migrates
<1> QED
  BY <1>3, <1>4

\* O without n tables and what belongs to them.
Without(O, names, n) == {o \in O : \A k \in 1..n : o[2] # names[k]}

\* Dropping tables, each one when no other refers to it any more.
LEMMA DropTables ==
    ASSUME NEW ops, NEW O, Len(ops) \in Nat, NEW names,
           \A n \in 1..Len(ops) :
               /\ ops[n].do = "drop" /\ ops[n].object = Table(names[n])
               /\ HasTable(names[n], O)
               /\ \A k \in 1..(n - 1) : names[k] # names[n]
               /\ \A fk \in ForeignKeys :
                    fk[2] = names[n] /\ fk[1] # fk[2] =>
                        ~HasTable(fk[1], O) \/ \E k \in 1..(n - 1) : names[k] = fk[1]
    PROVE  Yields(ops, O, Without(O, names, Len(ops)))
<1>0. ASSUME NEW n \in 1..Len(ops), NEW o
      PROVE  Removes(ops[n], o) <=> o[2] = names[n]
  BY DEF Removes, Table
<1>1. \A n \in 0..Len(ops) : Stages(ops, O)[n] = {o \in O : \A k \in 1..n : o[2] # names[k]}
  <2>1. \A n \in 0..Len(ops) :
            Stages(ops, O)[n] = {o \in O : \A k \in 1..n : ~Removes(ops[k], o)}
    BY Dropping
  <2> QED
    BY <1>0, <2>1
<1>2. ASSUME NEW n \in 1..Len(ops)
      PROVE  Applies(ops[n], Stages(ops, O)[n - 1])
  <2>1. Stages(ops, O)[n - 1] = {o \in O : \A k \in 1..(n - 1) : o[2] # names[k]}
    BY <1>1
  <2>2. \A t : Table(t)[2] = t
    BY DEF Table
  <2>3. ops[n].object \in Stages(ops, O)[n - 1]
    BY <2>1, <2>2 DEF HasTable
  <2>4. ASSUME NEW fk \in ForeignKeys, fk[2] = names[n], fk[1] # fk[2]
        PROVE  ~HasTable(fk[1], Stages(ops, O)[n - 1])
    BY <2>1, <2>2, <2>4 DEF HasTable
  <2> QED
    BY <2>2, <2>3, <2>4 DEF Applies
<1>3. Yields(ops, O, Stages(ops, O)[Len(ops)])
  BY <1>2, Migrates
<1>4. Stages(ops, O)[Len(ops)] = Without(O, names, Len(ops))
  BY <1>1 DEF Without
<1> QED
  BY <1>3, <1>4

\* A database at head: alembic upgrade head runs nothing.
LEMMA NothingToDo == ASSUME NEW O PROVE Yields(<< >>, O, O)
<1>1. Len(<< >>) = 0
  OBVIOUS
<1>2. Stages(<< >>, O)[0] = O
  BY <1>1, StagesAre
<1> QED
  BY <1>1, <1>2, Migrates

-----------------------------------------------------------------------------
(* The revisions upwards *)

\* What each revision creates.
IdentityMade == {Table("roles"), Table("users"), Table("user_sessions")}
ContentMade == {Table("data_sources"), Table("ingestion_jobs"), Table("audit_logs")}
IndexesMade ==
    {Index("users", "idx_users_email"), Index("users", "idx_users_role"),
     Index("user_sessions", "idx_sessions_token"),
     Index("user_sessions", "idx_sessions_expires"),
     Index("audit_logs", "idx_audit_user"), Index("audit_logs", "idx_audit_action"),
     Index("ingestion_jobs", "idx_ingestion_source")}
ConversationsMade ==
    {Table("conversations"), Index("conversations", "ix_conversations_user_id"),
     Table("conversation_messages"),
     Index("conversation_messages", "ix_conversation_messages_conversation_id")}
Made ==
    << IdentityMade \cup ContentMade \cup IndexesMade,
       {Index("roles", "idx_roles_permission_tags")},
       {Index("audit_logs", "idx_audit_query_hash")},
       ConversationsMade >>

\* The first revision creates its tables so that each finds those it refers to,
LEMMA IdentityUp ==
    ASSUME NEW O, O \cap IdentityMade = {}
    PROVE  Yields(IdentityTables, O, O \cup IdentityMade)
<1> DEFINE ops == IdentityTables
<1>1. /\ Len(ops) = 3 /\ ops[1] = CreateTable("roles", {})
      /\ ops[2] = CreateTable("users", {"roles"})
      /\ ops[3] = CreateTable("user_sessions", {"users"})
  BY DEF IdentityTables
<1> HIDE DEF ops
<1>2. /\ Objects(ops, 0) = {} /\ Objects(ops, 1) = {Table("roles")}
      /\ Objects(ops, 2) = {Table("roles"), Table("users")}
      /\ Objects(ops, 3) = IdentityMade
  BY <1>1 DEF Objects, CreateTable, IdentityMade
<1>3. ASSUME NEW n \in 1..3
      PROVE  /\ ops[n].do = "create"
             /\ ops[n].object \notin O \cup Objects(ops, n - 1)
             /\ \A t \in ops[n].refs : Table(t) \in O \cup Objects(ops, n - 1)
  <2>1. CASE n = 1
    BY <2>1, <1>1, <1>2 DEF CreateTable, Table, IdentityMade
  <2>2. CASE n = 2
    BY <2>2, <1>1, <1>2 DEF CreateTable, Table, IdentityMade
  <2>3. CASE n = 3
    BY <2>3, <1>1, <1>2 DEF CreateTable, Table, IdentityMade
  <2> QED
    BY <2>1, <2>2, <2>3
<1>4. Len(ops) \in Nat /\ 1..Len(ops) = 1..3
  BY <1>1
<1>5. Yields(ops, O, O \cup Objects(ops, Len(ops)))
  BY <1>3, <1>4, Creates
<1> QED
  BY <1>1, <1>2, <1>5 DEF ops

\* ... also those that refer to users,
LEMMA ContentUp ==
    ASSUME NEW O, O \cap ContentMade = {}, HasTable("users", O)
    PROVE  Yields(ContentTables, O, O \cup ContentMade)
<1> DEFINE ops == ContentTables
<1>1. /\ Len(ops) = 3 /\ ops[1] = CreateTable("data_sources", {"users"})
      /\ ops[2] = CreateTable("ingestion_jobs", {"data_sources"})
      /\ ops[3] = CreateTable("audit_logs", {"users"})
  BY DEF ContentTables
<1> HIDE DEF ops
<1>2. /\ Objects(ops, 0) = {} /\ Objects(ops, 1) = {Table("data_sources")}
      /\ Objects(ops, 2) = {Table("data_sources"), Table("ingestion_jobs")}
      /\ Objects(ops, 3) = ContentMade
  BY <1>1 DEF Objects, CreateTable, ContentMade
<1>3. ASSUME NEW n \in 1..3
      PROVE  /\ ops[n].do = "create"
             /\ ops[n].object \notin O \cup Objects(ops, n - 1)
             /\ \A t \in ops[n].refs : Table(t) \in O \cup Objects(ops, n - 1)
  <2>1. CASE n = 1
    BY <2>1, <1>1, <1>2 DEF CreateTable, HasTable, ContentMade
  <2>2. CASE n = 2
    BY <2>2, <1>1, <1>2 DEF CreateTable, HasTable, Table, ContentMade
  <2>3. CASE n = 3
    BY <2>3, <1>1, <1>2 DEF CreateTable, HasTable, Table, ContentMade
  <2> QED
    BY <2>1, <2>2, <2>3
<1>4. Len(ops) \in Nat /\ 1..Len(ops) = 1..3
  BY <1>1
<1>5. Yields(ops, O, O \cup Objects(ops, Len(ops)))
  BY <1>3, <1>4, Creates
<1> QED
  BY <1>1, <1>2, <1>5 DEF ops

\* ... and then the indexes on them.
LEMMA IndexesUp ==
    ASSUME NEW O, O \cap IndexesMade = {}, IdentityMade \cup ContentMade \subseteq O
    PROVE  Yields(InitialIndexes, O, O \cup IndexesMade)
<1> DEFINE ops == InitialIndexes
<1>1. /\ Len(ops) = 7
      /\ ops[1] = CreateIndex("users", "idx_users_email")
      /\ ops[2] = CreateIndex("users", "idx_users_role")
      /\ ops[3] = CreateIndex("user_sessions", "idx_sessions_token")
      /\ ops[4] = CreateIndex("user_sessions", "idx_sessions_expires")
      /\ ops[5] = CreateIndex("audit_logs", "idx_audit_user")
      /\ ops[6] = CreateIndex("audit_logs", "idx_audit_action")
      /\ ops[7] = CreateIndex("ingestion_jobs", "idx_ingestion_source")
  BY DEF InitialIndexes
<1> HIDE DEF ops
<1>2. Objects(ops, 7) = IndexesMade
  BY <1>1 DEF Objects, CreateIndex, IndexesMade
<1>3. ASSUME NEW n \in 1..7
      PROVE  /\ ops[n].do = "create"
             /\ ops[n].object \notin O
             /\ \A k \in 1..(n - 1) : ops[k].object # ops[n].object
             /\ \A t \in ops[n].refs : Table(t) \in O
  <2>1. ops[n].do = "create" /\ ops[n].object \in IndexesMade
    BY <1>1 DEF CreateIndex, IndexesMade
  <2>2. \A k \in 1..(n - 1) : ops[k].object # ops[n].object
    BY <1>1 DEF CreateIndex, Index
  <2>3. \A t \in ops[n].refs : Table(t) \in O
    BY <1>1 DEF CreateIndex, IdentityMade, ContentMade
  <2> QED
    BY <2>1, <2>2, <2>3
<1>4. Len(ops) \in Nat /\ 1..Len(ops) = 1..7
  BY <1>1
<1>5. \A n \in 1..7 : ops[n].object \notin O \cup Objects(ops, n - 1)
  BY <1>3 DEF Objects
<1>6. Yields(ops, O, O \cup Objects(ops, Len(ops)))
  BY <1>3, <1>4, <1>5, Creates
<1> QED
  BY <1>1, <1>2, <1>6 DEF ops

\* The last revision.
LEMMA ConversationsUp ==
    ASSUME NEW O, O \cap ConversationsMade = {}
    PROVE  Yields(ConversationTables, O, O \cup ConversationsMade)
<1> DEFINE ops == ConversationTables
<1>1. /\ Len(ops) = 4
      /\ ops[1] = CreateTable("conversations", {})
      /\ ops[2] = CreateIndex("conversations", "ix_conversations_user_id")
      /\ ops[3] = CreateTable("conversation_messages", {"conversations"})
      /\ ops[4] = CreateIndex("conversation_messages", "ix_conversation_messages_conversation_id")
  BY DEF ConversationTables
<1> HIDE DEF ops
<1>2. Objects(ops, 4) = ConversationsMade
  BY <1>1 DEF Objects, CreateIndex, CreateTable, ConversationsMade
<1>3. ASSUME NEW n \in 1..4
      PROVE  /\ ops[n].do = "create"
             /\ ops[n].object \notin O \cup Objects(ops, n - 1)
             /\ \A t \in ops[n].refs : Table(t) \in O \cup Objects(ops, n - 1)
  <2>1. ops[n].do = "create" /\ ops[n].object \in ConversationsMade
    BY <1>1 DEF CreateIndex, CreateTable, ConversationsMade
  <2>2. \A k \in 1..(n - 1) : ops[k].object # ops[n].object
    BY <1>1 DEF CreateIndex, CreateTable, Index, Table
  <2>3. \A t \in ops[n].refs : \E k \in 1..(n - 1) : Table(t) = ops[k].object
    BY <1>1 DEF CreateIndex, CreateTable
  <2> QED
    BY <2>1, <2>2, <2>3 DEF Objects
<1>4. Len(ops) \in Nat /\ 1..Len(ops) = 1..4
  BY <1>1
<1>5. Yields(ops, O, O \cup Objects(ops, Len(ops)))
  BY <1>3, <1>4, Creates
<1> QED
  BY <1>1, <1>2, <1>5 DEF ops

\* The two revisions that add an index, if it is not there.
LEMMA RbacUp ==
    ASSUME NEW O, HasTable("roles", O)
    PROVE  Yields(RbacIndex, O, O \cup Made[2])
<1> DEFINE ops == RbacIndex
<1>1. Len(ops) = 1 /\ ops[1] = EnsureIndex("roles", "idx_roles_permission_tags")
  BY DEF RbacIndex
<1> HIDE DEF ops
<1>2. Objects(ops, 1) = Made[2]
  BY <1>1 DEF Objects, EnsureIndex, CreateIndex, Made
<1>3. Len(ops) \in Nat /\ \A n \in 1..Len(ops) : n = 1
  BY <1>1
<1>4. ops[1].do = "create" /\ ops[1].lenient /\ \A t \in ops[1].refs : Table(t) \in O
  BY <1>1 DEF EnsureIndex, CreateIndex, HasTable
<1>5. Yields(ops, O, O \cup Objects(ops, Len(ops)))
  BY <1>3, <1>4, Creates
<1> QED
  BY <1>1, <1>2, <1>5 DEF ops

LEMMA AuditUp ==
    ASSUME NEW O, HasTable("audit_logs", O)
    PROVE  Yields(AuditIndex, O, O \cup Made[3])
<1> DEFINE ops == AuditIndex
<1>1. Len(ops) = 1 /\ ops[1] = EnsureIndex("audit_logs", "idx_audit_query_hash")
  BY DEF AuditIndex
<1> HIDE DEF ops
<1>2. Objects(ops, 1) = Made[3]
  BY <1>1 DEF Objects, EnsureIndex, CreateIndex, Made
<1>3. Len(ops) \in Nat /\ \A n \in 1..Len(ops) : n = 1
  BY <1>1
<1>4. ops[1].do = "create" /\ ops[1].lenient /\ \A t \in ops[1].refs : Table(t) \in O
  BY <1>1 DEF EnsureIndex, CreateIndex, HasTable
<1>5. Yields(ops, O, O \cup Objects(ops, Len(ops)))
  BY <1>3, <1>4, Creates
<1> QED
  BY <1>1, <1>2, <1>5 DEF ops

\* The sequences of operations are sequences.
LEMMA Typed ==
    /\ IsSequence(IdentityTables) /\ IsSequence(ContentTables)
    /\ IsSequence(InitialIndexes) /\ IsSequence(RbacIndex)
    /\ IsSequence(AuditIndex) /\ IsSequence(ConversationTables)
<1>1. \A a, b, c : IsSequence(<<a, b, c>>)
  <2> TAKE a, b, c
  <2>1. <<a, b, c>> \in Seq({a, b, c})
    OBVIOUS
  <2> QED
    BY <2>1 DEF IsSequence
<1>2. \A a, b, c, d : IsSequence(<<a, b, c, d>>)
  <2> TAKE a, b, c, d
  <2>1. <<a, b, c, d>> \in Seq({a, b, c, d})
    OBVIOUS
  <2> QED
    BY <2>1 DEF IsSequence
<1>3. \A a, b, c, d, e, f, g : IsSequence(<<a, b, c, d, e, f, g>>)
  <2> TAKE a, b, c, d, e, f, g
  <2>1. <<a, b, c, d, e, f, g>> \in Seq({a, b, c, d, e, f, g})
    OBVIOUS
  <2> QED
    BY <2>1 DEF IsSequence
<1>4. \A a : IsSequence(<<a>>)
  <2> TAKE a
  <2>1. <<a>> \in Seq({a})
    OBVIOUS
  <2> QED
    BY <2>1 DEF IsSequence
<1> QED
  BY <1>1, <1>2, <1>3, <1>4 DEF IdentityTables, ContentTables, InitialIndexes, RbacIndex,
     AuditIndex, ConversationTables

\* The objects of the first r revisions are there and no others of a revision.
AtRevision(r, O) ==
    /\ r \in 0..4
    /\ \A k \in 1..4 : IF k <= r THEN Made[k] \subseteq O ELSE Made[k] \cap O = {}

\* No two revisions create the same object.
LEMMA MadeApart == \A k, l \in 1..4 : k # l => Made[k] \cap Made[l] = {}
  BY DEF Made, IdentityMade, ContentMade, IndexesMade, ConversationsMade, Table, Index

\* The first revision as a whole.
LEMMA InitialUp ==
    ASSUME NEW O, O \cap Made[1] = {}
    PROVE  Yields(Upgrades[1], O, O \cup Made[1])
<1> DEFINE P == O \cup IdentityMade
           Q == P \cup ContentMade
<1>1. Made[1] = IdentityMade \cup ContentMade \cup IndexesMade
  BY DEF Made
<1>2. /\ IdentityMade \cap ContentMade = {}
      /\ (IdentityMade \cup ContentMade) \cap IndexesMade = {}
  BY DEF IdentityMade, ContentMade, IndexesMade, Table, Index
<1>3. Yields(IdentityTables, O, P)
  BY <1>1, IdentityUp
<1>4. HasTable("users", P)
  BY DEF HasTable, IdentityMade
<1>5. Yields(ContentTables, P, Q)
  BY <1>1, <1>2, <1>4, ContentUp
<1>6. Yields(InitialIndexes, Q, Q \cup IndexesMade)
  BY <1>1, <1>2, IndexesUp
<1>7. Q \cup IndexesMade = O \cup Made[1]
  BY <1>1
<1> HIDE DEF P, Q
<1>8. Yields(IdentityTables \o ContentTables, O, Q)
  BY <1>3, <1>5, Joined, Typed
<1>9. IsSequence(IdentityTables \o ContentTables)
  BY Typed, Sequences
<1>10. Yields(IdentityTables \o ContentTables \o InitialIndexes, O, Q \cup IndexesMade)
  BY <1>6, <1>8, <1>9, Joined, Typed
<1> QED
  BY <1>7, <1>10 DEF Upgrades

\* Every revision applies to a database at the one before it.
LEMMA RevisionUp ==
    ASSUME NEW r \in 1..4, NEW O, AtRevision(r - 1, O)
    PROVE  Yields(Upgrades[r], O, O \cup Made[r]) /\ AtRevision(r, O \cup Made[r])
<1>1. AtRevision(r, O \cup Made[r])
  BY MadeApart DEF AtRevision
<1>2. r > 1 => HasTable("roles", O) /\ HasTable("audit_logs", O)
  BY DEF AtRevision, Made, IdentityMade, ContentMade, HasTable
<1>3. O \cap Made[r] = {}
  BY DEF AtRevision
<1>4. CASE r = 1
  BY <1>1, <1>3, <1>4, InitialUp
<1>5. CASE r = 2
  BY <1>1, <1>2, <1>5, RbacUp DEF Upgrades
<1>6. CASE r = 3
  BY <1>1, <1>2, <1>6, AuditUp DEF Upgrades
<1>7. CASE r = 4
  <2>1. Made[4] = ConversationsMade /\ Upgrades[4] = ConversationTables
    BY DEF Made, Upgrades
  <2> QED
    BY <1>1, <1>3, <1>7, <2>1, ConversationsUp
<1> QED
  BY <1>4, <1>5, <1>6, <1>7

LEMMA UpgradesTyped == Latest = 4 /\ \A r \in 1..4 : IsSequence(Upgrades[r])
<1>1. IsSequence(IdentityTables \o ContentTables \o InitialIndexes)
  <2>1. IsSequence(IdentityTables \o ContentTables)
    BY Typed, Sequences
  <2> QED
    BY <2>1, Typed, Sequences
<1> QED
  BY <1>1, Typed DEF Upgrades, Latest

\* The last of the revisions 1..r that the database has, or will have after r.
Reached(r) == IF revision < r THEN r ELSE revision

\* ... so that it can be run, or passed over.
LEMMA MissingUp ==
    ASSUME NEW r \in 1..4, NEW O, revision \in 0..4, AtRevision(Reached(r - 1), O)
    PROVE  \E P : /\ Yields(Missing(r), O, P) /\ AtRevision(Reached(r), P)
                  /\ O \subseteq P /\ P \subseteq O \cup UNION {Made[k] : k \in 1..4}
<1>1. CASE revision < r
  <2>1. Reached(r - 1) = r - 1 /\ Reached(r) = r
    BY <1>1 DEF Reached
  <2>0. Missing(r) = Upgrades[r]
    BY <1>1 DEF Missing
  <2>2. Yields(Upgrades[r], O, O \cup Made[r]) /\ AtRevision(r, O \cup Made[r])
    BY <2>1, RevisionUp
  <2>3. Made[r] \subseteq UNION {Made[k] : k \in 1..4}
    OBVIOUS
  <2> QED
    BY <2>0, <2>1, <2>2, <2>3
<1>2. CASE revision >= r
  BY <1>2, NothingToDo DEF Reached, Missing
<1> QED
  BY <1>1, <1>2

\* alembic upgrade head succeeds from every revision and removes nothing.
LEMMA PendingUp ==
    ASSUME revision \in 0..4, AtRevision(revision, objects)
    PROVE  \E P : /\ Yields(PendingOps, objects, P) /\ AtRevision(4, P)
                  /\ objects \subseteq P
                  /\ P \subseteq objects \cup UNION {Made[k] : k \in 1..4}
<1> DEFINE all == UNION {Made[k] : k \in 1..4}
<1>1. \A r \in 1..4 : IsSequence(Missing(r))
  <2>1. << >> \in Seq({})
    OBVIOUS
  <2>2. IsSequence(<< >>)
    BY <2>1 DEF IsSequence
  <2> QED
    BY <2>2, UpgradesTyped DEF Missing
<1>2. Reached(0) = revision /\ Reached(4) = 4
  BY DEF Reached
<1>3. PICK A : /\ Yields(Missing(1), objects, A) /\ AtRevision(Reached(1), A)
               /\ objects \subseteq A /\ A \subseteq objects \cup all
  BY <1>2, MissingUp
<1>4. PICK B : /\ Yields(Missing(2), A, B) /\ AtRevision(Reached(2), B)
               /\ A \subseteq B /\ B \subseteq A \cup all
  BY <1>3, MissingUp
<1>5. PICK C : /\ Yields(Missing(3), B, C) /\ AtRevision(Reached(3), C)
               /\ B \subseteq C /\ C \subseteq B \cup all
  BY <1>4, MissingUp
<1>6. PICK D : /\ Yields(Missing(4), C, D) /\ AtRevision(Reached(4), D)
               /\ C \subseteq D /\ D \subseteq C \cup all
  BY <1>5, MissingUp
<1> HIDE DEF all
<1>7. Yields(Missing(1) \o Missing(2), objects, B)
  BY <1>1, <1>3, <1>4, Joined
<1>8. Yields(Missing(1) \o Missing(2) \o Missing(3), objects, C)
  <2>1. IsSequence(Missing(1) \o Missing(2))
    BY <1>1, Sequences
  <2> QED
    BY <1>1, <1>5, <1>7, <2>1, Joined
<1>9. Yields(PendingOps, objects, D)
  <2>1. IsSequence(Missing(1) \o Missing(2)) /\ IsSequence(Missing(3))
    BY <1>1, Sequences
  <2>2. IsSequence(Missing(1) \o Missing(2) \o Missing(3))
    BY <2>1, Sequences
  <2> QED
    BY <1>1, <1>6, <1>8, <2>2, Joined DEF PendingOps
<1> QED
  BY <1>2, <1>3, <1>4, <1>5, <1>6, <1>9 DEF all

\* The operations of two sequences, one after the other.
LEMMA ElementsJoined ==
    ASSUME NEW s, NEW t, IsSequence(s), IsSequence(t)
    PROVE  ToSet(s \o t) \subseteq ToSet(s) \cup ToSet(t)
<1> DEFINE st == s \o t
<1>1. /\ Len(s) \in Nat /\ Len(t) \in Nat /\ Len(st) = Len(s) + Len(t)
      /\ \A i \in 1..Len(s) : st[i] = s[i]
      /\ \A i \in 1..Len(t) : st[Len(s) + i] = t[i]
      /\ IsSequence(st)
  BY Sequences
<1> HIDE DEF st
<1>2. \A u : IsSequence(u) => DOMAIN u = 1..Len(u)
  BY DEF IsSequence
<1>3. ASSUME NEW i \in 1..Len(st)
      PROVE  st[i] \in ToSet(s) \cup ToSet(t)
  <2>1. CASE i <= Len(s)
    BY <1>1, <1>2, <2>1 DEF ToSet
  <2>2. CASE i > Len(s)
    <3> DEFINE m == i - Len(s)
    <3>1. m \in 1..Len(t) /\ i = Len(s) + m
      BY <1>1, <2>2
    <3> HIDE DEF m
    <3>2. st[i] = t[m]
      BY <1>1, <3>1
    <3> QED
      BY <1>2, <3>1, <3>2 DEF ToSet
  <2> QED
    BY <1>1, <2>1, <2>2
<1>4. ToSet(st) \subseteq ToSet(s) \cup ToSet(t)
  BY <1>1, <1>2, <1>3 DEF ToSet
<1> QED
  BY <1>4 DEF st

Keys ==
    {<<"users", "roles">>, <<"user_sessions", "users">>, <<"data_sources", "users">>,
     <<"ingestion_jobs", "data_sources">>, <<"audit_logs", "users">>,
     <<"conversation_messages", "conversations">>}

\* The keys are those the revisions write down.
LEMMA ForeignKeysAre == ForeignKeys \subseteq Keys
<1>1. \A t, R : KeysOf(CreateTable(t, R)) = {<<t, x>> : x \in R}
  BY DEF KeysOf, CreateTable, Table
<1>2. \A t, i : KeysOf(CreateIndex(t, i)) = {} /\ KeysOf(EnsureIndex(t, i)) = {}
  BY DEF KeysOf, CreateIndex, EnsureIndex, Index
<1>3. \A op \in ToSet(IdentityTables) : KeysOf(op) \subseteq Keys
  BY <1>1 DEF IdentityTables, ToSet, Keys
<1>4. \A op \in ToSet(ContentTables) : KeysOf(op) \subseteq Keys
  BY <1>1 DEF ContentTables, ToSet, Keys
<1>5. \A op \in ToSet(InitialIndexes) : KeysOf(op) \subseteq Keys
  BY <1>2 DEF InitialIndexes, ToSet, Keys
<1>6. \A op \in ToSet(RbacIndex) \cup ToSet(AuditIndex) : KeysOf(op) \subseteq Keys
  BY <1>2 DEF RbacIndex, AuditIndex, ToSet, Keys
<1>7. \A op \in ToSet(ConversationTables) : KeysOf(op) \subseteq Keys
  BY <1>1, <1>2 DEF ConversationTables, ToSet, Keys
<1>8. ToSet(IdentityTables \o ContentTables \o InitialIndexes)
        \subseteq ToSet(IdentityTables) \cup ToSet(ContentTables) \cup ToSet(InitialIndexes)
  <2>1. ToSet(IdentityTables \o ContentTables)
          \subseteq ToSet(IdentityTables) \cup ToSet(ContentTables)
    BY Typed, ElementsJoined
  <2>2. ToSet(IdentityTables \o ContentTables \o InitialIndexes)
          \subseteq ToSet(IdentityTables \o ContentTables) \cup ToSet(InitialIndexes)
    BY Typed, Sequences, ElementsJoined
  <2> QED
    BY <2>1, <2>2
<1>9. ASSUME NEW r \in 1..4, NEW op \in ToSet(Upgrades[r])
      PROVE  KeysOf(op) \subseteq Keys
  <2>1. CASE r = 1
    <3>1. op \in ToSet(IdentityTables \o ContentTables \o InitialIndexes)
      BY <2>1 DEF Upgrades
    <3> QED
      BY <1>3, <1>4, <1>5, <1>8, <3>1
  <2>2. CASE r \in {2, 3}
    <3>1. op \in ToSet(RbacIndex) \cup ToSet(AuditIndex)
      BY <2>2 DEF Upgrades
    <3> QED
      BY <1>6, <3>1
  <2>3. CASE r = 4
    <3>1. op \in ToSet(ConversationTables)
      BY <2>3 DEF Upgrades
    <3> QED
      BY <1>7, <3>1
  <2> QED
    BY <2>1, <2>2, <2>3
<1> QED
  BY <1>9, UpgradesTyped DEF ForeignKeys

-----------------------------------------------------------------------------
(* The revisions downwards *)

InitialTables ==
    {"roles", "users", "user_sessions", "data_sources", "ingestion_jobs", "audit_logs"}
ConversationTableNames == {"conversations", "conversation_messages"}

\* What the operations that drop are.
LEMMA DropsAre ==
    \A t, i :
        /\ DropIndex(t, i).do = "drop" /\ DropIndex(t, i).object = Index(t, i)
        /\ DropIndexIfExists(t, i).do = "drop" /\ DropIndexIfExists(t, i).object = Index(t, i)
        /\ DropIndexIfExists(t, i).lenient
        /\ DropTable(t).do = "drop" /\ DropTable(t).object = Table(t)
<1>1. \A t, i : DropIndex(t, i).do = "drop" /\ DropIndex(t, i).object = Index(t, i)
  BY DEF DropIndex, CreateIndex
<1>2. \A t, i : /\ EnsureIndex(t, i).lenient /\ EnsureIndex(t, i).object = Index(t, i)
                /\ DOMAIN EnsureIndex(t, i) = {"do", "object", "refs", "lenient"}
  BY DEF EnsureIndex, CreateIndex
<1>3. \A t, i : /\ DropIndexIfExists(t, i).do = "drop" /\ DropIndexIfExists(t, i).lenient
                /\ DropIndexIfExists(t, i).object = Index(t, i)
  BY <1>2 DEF DropIndexIfExists
<1>4. \A t : DropTable(t).do = "drop" /\ DropTable(t).object = Table(t)
  BY DEF DropTable, CreateTable
<1> QED
  BY <1>1, <1>3, <1>4

\* The first revision taken back: first the indexes,
LEMMA IndexesDown ==
    ASSUME NEW O, IndexesMade \subseteq O
    PROVE  Yields(SubSeq(InitialDowngrade, 1, 7), O, O \ IndexesMade)
<1> DEFINE ops == SubSeq(InitialDowngrade, 1, 7)
<1>1. /\ Len(ops) = 7
      /\ ops[1] = DropIndexIfExists("ingestion_jobs", "idx_ingestion_source")
      /\ ops[2] = DropIndexIfExists("audit_logs", "idx_audit_action")
      /\ ops[3] = DropIndexIfExists("audit_logs", "idx_audit_user")
      /\ ops[4] = DropIndex("user_sessions", "idx_sessions_expires")
      /\ ops[5] = DropIndex("user_sessions", "idx_sessions_token")
      /\ ops[6] = DropIndex("users", "idx_users_role")
      /\ ops[7] = DropIndex("users", "idx_users_email")
  BY DEF InitialDowngrade
<1> HIDE DEF ops
<1>2. /\ \A n \in 1..7 : ops[n].do = "drop"
      /\ ops[1].object = Index("ingestion_jobs", "idx_ingestion_source")
      /\ ops[2].object = Index("audit_logs", "idx_audit_action")
      /\ ops[3].object = Index("audit_logs", "idx_audit_user")
      /\ ops[4].object = Index("user_sessions", "idx_sessions_expires")
      /\ ops[5].object = Index("user_sessions", "idx_sessions_token")
      /\ ops[6].object = Index("users", "idx_users_role")
      /\ ops[7].object = Index("users", "idx_users_email")
  BY <1>1, DropsAre
<1>3. Objects(ops, 7) = IndexesMade
  BY <1>2 DEF Objects, IndexesMade
<1>4. ASSUME NEW n \in 1..7
      PROVE  /\ ops[n].do = "drop" /\ ops[n].object[1] = "index"
             /\ ops[n].object \in O
             /\ \A k \in 1..(n - 1) : ops[k].object # ops[n].object
  <2>1. ops[n].object[1] = "index"
    BY <1>2 DEF Index
  <2>2. ops[n].object \in O
    BY <1>3 DEF Objects
  <2>3. \A k \in 1..(n - 1) : ops[k].object # ops[n].object
    BY <1>2 DEF Index
  <2> QED
    BY <1>2, <2>1, <2>2, <2>3
<1>5. Len(ops) \in Nat /\ 1..Len(ops) = 1..7
  BY <1>1
<1>6. Yields(ops, O, O \ Objects(ops, Len(ops)))
  BY <1>4, <1>5, DropIndexes
<1> QED
  BY <1>1, <1>3, <1>6 DEF ops

\* In the order in which they go.
InitialNames ==
    <<"audit_logs", "ingestion_jobs", "data_sources", "user_sessions", "users", "roles">>

\* ... then the tables, the referring ones first,
LEMMA TablesDown ==
    ASSUME NEW O, IdentityMade \cup ContentMade \subseteq O
    PROVE  Yields(SubSeq(InitialDowngrade, 8, 13), O, {o \in O : o[2] \notin InitialTables})
<1> DEFINE ops == SubSeq(InitialDowngrade, 8, 13)
           names == InitialNames
<1>1. /\ Len(ops) = 6
      /\ ops[1] = DropTable("audit_logs") /\ ops[2] = DropTable("ingestion_jobs")
      /\ ops[3] = DropTable("data_sources") /\ ops[4] = DropTable("user_sessions")
      /\ ops[5] = DropTable("users") /\ ops[6] = DropTable("roles")
  BY DEF InitialDowngrade
<1> HIDE DEF ops
<1>2. /\ names[1] = "audit_logs" /\ names[2] = "ingestion_jobs" /\ names[3] = "data_sources"
      /\ names[4] = "user_sessions" /\ names[5] = "users" /\ names[6] = "roles"
  BY DEF InitialNames
<1>3. \A n \in 1..6 : ops[n].do = "drop" /\ ops[n].object = Table(names[n])
  BY <1>1, <1>2, DropsAre
<1> HIDE DEF names
<1>4. ASSUME NEW n \in 1..6
      PROVE  /\ HasTable(names[n], O)
             /\ \A k \in 1..(n - 1) : names[k] # names[n]
             /\ \A fk \in ForeignKeys :
                  fk[2] = names[n] /\ fk[1] # fk[2] =>
                      ~HasTable(fk[1], O) \/ \E k \in 1..(n - 1) : names[k] = fk[1]
  <2>1. HasTable(names[n], O)
    BY <1>2 DEF HasTable, IdentityMade, ContentMade
  <2>2. \A k \in 1..(n - 1) : names[k] # names[n]
    BY <1>2
  <2>3. ASSUME NEW fk \in Keys, fk[2] = names[n]
        PROVE  \E k \in 1..(n - 1) : names[k] = fk[1]
    BY <1>2, <2>3 DEF Keys
  <2> QED
    BY <2>1, <2>2, <2>3, ForeignKeysAre
<1>5. Len(ops) \in Nat /\ 1..Len(ops) = 1..6
  BY <1>1
<1>8. \A n \in 1..Len(ops) :
          /\ ops[n].do = "drop" /\ ops[n].object = Table(names[n])
          /\ HasTable(names[n], O)
          /\ \A k \in 1..(n - 1) : names[k] # names[n]
          /\ \A fk \in ForeignKeys :
               fk[2] = names[n] /\ fk[1] # fk[2] =>
                   ~HasTable(fk[1], O) \/ \E k \in 1..(n - 1) : names[k] = fk[1]
  BY <1>3, <1>4, <1>5
<1>6. Yields(ops, O, Without(O, names, Len(ops)))
  BY <1>5, <1>8, DropTables
<1>7. Without(O, names, 6) = {o \in O : o[2] \notin InitialTables}
  BY <1>2 DEF InitialTables, Without
<1> QED
  BY <1>1, <1>6, <1>7 DEF ops

\* ... and with them everything about them.
LEMMA InitialDown ==
    ASSUME NEW O, Made[1] \subseteq O
    PROVE  \E P : /\ Yields(Downgrades[1], O, P) /\ P \subseteq O
                  /\ \A o \in P : o[2] \notin InitialTables
<1> DEFINE a == SubSeq(InitialDowngrade, 1, 7)
           b == SubSeq(InitialDowngrade, 8, 13)
           P == O \ IndexesMade
           Q == {o \in P : o[2] \notin InitialTables}
<1>1. InitialDowngrade = a \o b /\ IsSequence(a) /\ IsSequence(b)
  <2>1. \E X : InitialDowngrade \in Seq(X) /\ Len(InitialDowngrade) = 13
    <3> DEFINE X == {InitialDowngrade[n] : n \in 1..13}
    <3>1. InitialDowngrade \in Seq(X) /\ Len(InitialDowngrade) = 13
      BY DEF InitialDowngrade
    <3> QED
      BY <3>1
  <2>2. PICK X : InitialDowngrade \in Seq(X) /\ Len(InitialDowngrade) = 13
    BY <2>1
  <2>3. a \in Seq(X) /\ b \in Seq(X)
    <3>1. \A n \in 1..13 : InitialDowngrade[n] \in X
      BY <2>2, ElementOfSeq
    <3>2. /\ \A n \in 1..7 : InitialDowngrade[n] \in X
          /\ \A n \in 8..13 : InitialDowngrade[n] \in X
      BY <3>1
    <3> QED
      BY <3>2, SubSeqProperties
  <2>4. InitialDowngrade = a \o b
    BY <2>2
  <2> QED
    BY <2>3, <2>4 DEF IsSequence
<1>2. /\ Made[1] = IdentityMade \cup ContentMade \cup IndexesMade
      /\ (IdentityMade \cup ContentMade) \cap IndexesMade = {}
  BY DEF Made, IdentityMade, ContentMade, IndexesMade, Table, Index
<1>3. Yields(a, O, P)
  BY <1>2, IndexesDown
<1>4. Yields(b, P, Q)
  BY <1>2, TablesDown
<1>5. Q \subseteq O /\ \A o \in Q : o[2] \notin InitialTables
  OBVIOUS
<1> HIDE DEF a, b, P, Q
<1>6. Yields(InitialDowngrade, O, Q)
  BY <1>1, <1>3, <1>4, Joined
<1>7. Downgrades[1] = InitialDowngrade
  BY DEF Downgrades
<1> QED
  BY <1>5, <1>6, <1>7

\* The second and the third revision taken back.
LEMMA OneIndexDown ==
    ASSUME NEW t, NEW i, NEW O
    PROVE  Yields(<< DropIndexIfExists(t, i) >>, O, O \ {Index(t, i)})
<1> DEFINE ops == << DropIndexIfExists(t, i) >>
<1>1. Len(ops) = 1 /\ Len(ops) \in Nat /\ ops[1] = DropIndexIfExists(t, i)
  OBVIOUS
<1> HIDE DEF ops
<1>2. /\ ops[1].do = "drop" /\ ops[1].object = Index(t, i) /\ ops[1].object[1] = "index"
      /\ ops[1].lenient
  BY <1>1, DropsAre DEF Index
<1>3. \A n \in 1..Len(ops) : n = 1
  BY <1>1
<1>4. Objects(ops, Len(ops)) = {Index(t, i)}
  BY <1>1, <1>2 DEF Objects
<1>5. \A n \in 1..Len(ops) :
          /\ ops[n].do = "drop" /\ ops[n].object[1] = "index"
          /\ ops[n].lenient \/ ops[n].object \in O
          /\ \A k \in 1..(n - 1) : ops[k].object # ops[n].object
  BY <1>1, <1>2, <1>3
<1>6. Yields(ops, O, O \ Objects(ops, Len(ops)))
  BY <1>1, <1>5, DropIndexes
<1> QED
  BY <1>4, <1>6 DEF ops

\* A table of the last revision, with its index.
LEMMA OneTableDown ==
    ASSUME NEW t, NEW i, NEW O, HasTable(t, O), Index(t, i) \in O,
           \A fk \in ForeignKeys : fk[2] = t => ~HasTable(fk[1], O)
    PROVE  Yields(<< DropIndex(t, i), DropTable(t) >>, O, {o \in O : o[2] # t})
<1> DEFINE a == << DropIndex(t, i) >>
           b == << DropTable(t) >>
           names == << t >>
           P == O \ {Index(t, i)}
<1>1. /\ Len(a) = 1 /\ Len(a) \in Nat /\ a[1] = DropIndex(t, i)
      /\ Len(b) = 1 /\ Len(b) \in Nat /\ b[1] = DropTable(t) /\ names[1] = t
  OBVIOUS
<1>2. << DropIndex(t, i), DropTable(t) >> = a \o b /\ IsSequence(a) /\ IsSequence(b)
  <2>1. a \in Seq({DropIndex(t, i)}) /\ b \in Seq({DropTable(t)})
    OBVIOUS
  <2>2. << DropIndex(t, i), DropTable(t) >> = a \o b
    OBVIOUS
  <2> QED
    BY <2>1, <2>2 DEF IsSequence
<1> HIDE DEF a, b, names
<1>3. Yields(a, O, P)
  <2>1. a[1].do = "drop" /\ a[1].object = Index(t, i) /\ a[1].object[1] = "index"
    BY <1>1, DropsAre DEF Index
  <2>2. Objects(a, Len(a)) = {Index(t, i)}
    BY <1>1, <2>1 DEF Objects
  <2>3. \A n \in 1..Len(a) : n = 1
    BY <1>1
  <2>4. \A n \in 1..Len(a) :
            /\ a[n].do = "drop" /\ a[n].object[1] = "index"
            /\ a[n].lenient \/ a[n].object \in O
            /\ \A k \in 1..(n - 1) : a[k].object # a[n].object
    BY <1>1, <2>1, <2>3
  <2>5. Yields(a, O, O \ Objects(a, Len(a)))
    BY <1>1, <2>4, DropIndexes
  <2> QED
    BY <2>2, <2>5
<1>4. HasTable(t, P) /\ \A fk \in ForeignKeys : fk[2] = t => ~HasTable(fk[1], P)
  BY DEF HasTable, Table, Index
<1>5. Yields(b, P, Without(P, names, Len(b)))
  <2>1. b[1].do = "drop" /\ b[1].object = Table(names[1])
    BY <1>1, DropsAre
  <2>2. \A n \in 1..Len(b) : n = 1
    BY <1>1
  <2>3. \A n \in 1..Len(b) :
          /\ b[n].do = "drop" /\ b[n].object = Table(names[n])
          /\ HasTable(names[n], P)
          /\ \A k \in 1..(n - 1) : names[k] # names[n]
          /\ \A fk \in ForeignKeys :
               fk[2] = names[n] /\ fk[1] # fk[2] =>
                   ~HasTable(fk[1], P) \/ \E k \in 1..(n - 1) : names[k] = fk[1]
    BY <1>1, <1>4, <2>1, <2>2
  <2> QED
    BY <1>1, <2>3, DropTables
<1>6. Without(P, names, 1) = {o \in O : o[2] # t}
  BY <1>1 DEF Without, Index
<1>7. Yields(b, P, {o \in O : o[2] # t})
  BY <1>1, <1>5, <1>6
<1> DEFINE Q == {o \in O : o[2] # t}
<1> HIDE DEF P, Q
<1>8. Yields(a \o b, O, Q)
  BY <1>2, <1>3, <1>7, Joined DEF Q
<1> QED
  BY <1>2, <1>8 DEF Q

\* The last revision taken back.
LEMMA ConversationsDown ==
    ASSUME NEW O, Made[4] \subseteq O
    PROVE  Yields(Downgrades[4], O, {o \in O : o[2] \notin ConversationTableNames})
<1> DEFINE m == "conversation_messages"
           c == "conversations"
           im == "ix_conversation_messages_conversation_id"
           ic == "ix_conversations_user_id"
           a == << DropIndex(m, im), DropTable(m) >>
           b == << DropIndex(c, ic), DropTable(c) >>
           P == {o \in O : o[2] # m}
           Q == {o \in P : o[2] # c}
<1>1. /\ Table(m) \in O /\ Table(c) \in O /\ Index(m, im) \in O /\ Index(c, ic) \in O
  BY DEF Made, ConversationsMade
<1>2. \A fk \in ForeignKeys : fk[2] # m /\ (fk[2] = c => fk[1] = m)
  BY ForeignKeysAre DEF Keys
<1>3. Yields(a, O, P)
  BY <1>1, <1>2, OneTableDown DEF HasTable
<1>4. HasTable(c, P) /\ Index(c, ic) \in P /\ ~HasTable(m, P)
  BY <1>1 DEF HasTable, Table, Index
<1>5. Yields(b, P, Q)
  BY <1>2, <1>4, OneTableDown
<1>6. Downgrades[4] = a \o b
  BY DEF Downgrades, ConversationDowngrade
<1>7. IsSequence(a) /\ IsSequence(b)
  <2>1. \A x, y : <<x, y>> \in Seq({x, y})
    OBVIOUS
  <2> QED
    BY <2>1 DEF IsSequence
<1>8. Q = {o \in O : o[2] \notin ConversationTableNames}
  BY DEF ConversationTableNames
<1> HIDE DEF a, b, P, Q
<1> QED
  BY <1>3, <1>5, <1>6, <1>7, <1>8, Joined

\* What the objects are about: tables of the revisions.
LEMMA MadeOf ==
    /\ \A k \in 1..3 : \A o \in Made[k] : o[2] \in InitialTables
    /\ \A o \in Made[4] : o[2] \in ConversationTableNames
    /\ InitialTables \cap ConversationTableNames = {}
  BY DEF Made, IdentityMade, ContentMade, IndexesMade, ConversationsMade, Table, Index,
         InitialTables, ConversationTableNames

\* Every revision can be taken back; only the first takes columns with it.
LEMMA RevisionDown ==
    ASSUME NEW r \in 1..4, NEW O, AtRevision(r, O)
    PROVE  \E P : /\ Yields(Downgrades[r], O, P) /\ AtRevision(r - 1, P) /\ P \subseteq O
                  /\ r = 1 => \A o \in P : o[2] \notin InitialTables
                  /\ r # 1 => \A o \in O \ P : o[2] \in ConversationTableNames \/ o[1] = "index"
<1>1. Made[r] \subseteq O
  BY DEF AtRevision
<1>2. CASE r = 1
  <2>1. PICK P : /\ Yields(Downgrades[1], O, P) /\ P \subseteq O
                 /\ \A o \in P : o[2] \notin InitialTables
    BY <1>1, <1>2, InitialDown
  <2>2. AtRevision(0, P)
    BY <1>2, <2>1, MadeOf DEF AtRevision
  <2> QED
    BY <1>2, <2>1, <2>2
<1>3. ASSUME NEW t, NEW i, Made[r] = {Index(t, i)}, Downgrades[r] = << DropIndexIfExists(t, i) >>,
             r # 1
      PROVE  \E P : /\ Yields(Downgrades[r], O, P) /\ AtRevision(r - 1, P) /\ P \subseteq O
                    /\ \A o \in O \ P : o[1] = "index"
  <2>1. Yields(Downgrades[r], O, O \ {Index(t, i)})
    BY <1>3, OneIndexDown
  <2>2. AtRevision(r - 1, O \ {Index(t, i)})
    BY <1>3, MadeApart DEF AtRevision
  <2> QED
    BY <2>1, <2>2 DEF Index
<1>4. CASE r = 2
  <2>1. /\ Made[r] = {Index("roles", "idx_roles_permission_tags")}
        /\ Downgrades[r] = << DropIndexIfExists("roles", "idx_roles_permission_tags") >>
    BY <1>4 DEF Made, Downgrades, RbacDowngrade
  <2> QED
    BY <1>3, <1>4, <2>1
<1>5. CASE r = 3
  <2>1. /\ Made[r] = {Index("audit_logs", "idx_audit_query_hash")}
        /\ Downgrades[r] = << DropIndexIfExists("audit_logs", "idx_audit_query_hash") >>
    BY <1>5 DEF Made, Downgrades, AuditDowngrade
  <2> QED
    BY <1>3, <1>5, <2>1
<1>6. CASE r = 4
  <2> DEFINE P == {o \in O : o[2] \notin ConversationTableNames}
  <2>1. Yields(Downgrades[r], O, P)
    BY <1>1, <1>6, ConversationsDown
  <2>2. AtRevision(3, P)
    BY <1>6, MadeOf DEF AtRevision
  <2>3. P \subseteq O /\ \A o \in O \ P : o[2] \in ConversationTableNames
    OBVIOUS
  <2> HIDE DEF P
  <2> QED
    BY <1>6, <2>1, <2>2, <2>3
<1> QED
  BY <1>2, <1>4, <1>5, <1>6

\* A table that is there has the tables it refers to.
LEMMA KeysHold ==
    ASSUME NEW r, NEW O, AtRevision(r, O), NEW fk \in ForeignKeys, HasTable(fk[1], O)
    PROVE  HasTable(fk[2], O)
<1>1. r >= 1 => Made[1] \subseteq O
  BY DEF AtRevision
<1>2. r < 1 => Made[1] \cap O = {}
  BY DEF AtRevision
<1>3. r >= 4 => Made[4] \subseteq O
  BY DEF AtRevision
<1>4. r < 4 => Made[4] \cap O = {}
  BY DEF AtRevision
<1>5. r \in Int
  BY DEF AtRevision
<1>6. CASE fk[1] \in InitialTables
  <2>1. Table(fk[1]) \in Made[1] /\ Table(fk[2]) \in Made[1]
    BY <1>6, ForeignKeysAre DEF Keys, InitialTables, Made, IdentityMade, ContentMade
  <2> QED
    BY <1>1, <1>2, <1>5, <2>1 DEF HasTable
<1>7. CASE fk = <<"conversation_messages", "conversations">>
  <2>1. Table(fk[1]) \in Made[4] /\ Table(fk[2]) \in Made[4]
    BY <1>7 DEF Made, ConversationsMade
  <2> QED
    BY <1>3, <1>4, <1>5, <2>1 DEF HasTable
<1> QED
  BY <1>6, <1>7, ForeignKeysAre DEF Keys, InitialTables
=============================================================================
