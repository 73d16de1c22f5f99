--------------------------------- MODULE Sql ---------------------------------
(***************************************************************************)
(* sql_db: the statements that an entity is inserted, selected and updated *)
(* with (sql_db/insert.hpp, select.hpp, update.hpp, traits.hpp, statement) *)
(* and the database they are for.  A member of an entity is a value, an    *)
(* entity with a row of its own, or a container of such.                   *)
(*                                                                         *)
(* An entity type has a kind, a name and members, each with a name and a   *)
(* type; an entity maps the names of its members to what they hold.  The   *)
(* parts of a quoted name are kept apart.                                  *)
(***************************************************************************)
LOCAL INSTANCE Naturals
LOCAL INSTANCE Sequences
LOCAL INSTANCE SequencesExt
LOCAL INSTANCE TLC

ValueType == [kind |-> "value"]
Entity(name, members) == [kind |-> "entity", name |-> name, members |-> members]
Container(T) == [kind |-> "container", of |-> T]
Member(name, type) == [name |-> name, type |-> type]

---------------------------------------------------------------------------
(* traits.hpp *)

MembersOf(T, kind) == SelectSeq(T.members, LAMBDA m : m.type.kind = kind)
members_child(T) == MembersOf(T, "entity")
members_multirow(T) == MembersOf(T, "container")
members_value(T) == MembersOf(T, "value")
table_name(T) == T.name
table_key_name(T) == table_name(T) \o "_id"
member_key_name(m) == m.name \o "_id"

---------------------------------------------------------------------------
(* The database: per table its rows, each a function of its columns.  A
   statement has placeholders that are given values by their place. *)

InsertStatement(table, columns) ==
    [table |-> table, columns |-> [i \in DOMAIN columns |-> columns[i][1]],
     params |-> [i \in DOMAIN columns |-> columns[i][2]]]
UpdateStatement(table, columns, keys) ==
    [table |-> table, set |-> [i \in DOMAIN columns |-> columns[i][1]],
     where |-> [i \in DOMAIN keys |-> keys[i][1]],
     params |-> [i \in DOMAIN columns |-> columns[i][2]] \o [i \in DOMAIN keys |-> keys[i][2]]]
SelectStatement(table, columns, joins, keys) ==
    [table |-> table, columns |-> columns, joins |-> joins,
     where |-> [i \in DOMAIN keys |-> keys[i][1]], params |-> [i \in DOMAIN keys |-> keys[i][2]]]

Row(names, values) ==
    [n \in Range(names) |-> values[SelectInSeq(names, LAMBDA x : x = n)]]

\* A new row with the next key.
db_insert(db, T, columns) ==
    LET st == InsertStatement(table_name(T), columns)
        id == Len(db[st.table]) + 1
    IN  [id |-> id,
         db |-> [db EXCEPT ![st.table] =
                    Append(@, (table_key_name(T) :> id) @@ Row(st.columns, st.params))]]

Holds(row, names, values) ==
    \A i \in DOMAIN names : names[i] \in DOMAIN row /\ row[names[i]] = values[i]
db_update(db, st) ==
    LET values == SubSeq(st.params, 1, Len(st.set))
        keys == SubSeq(st.params, Len(st.set) + 1, Len(st.params))
        hit == SelectInSeq(db[st.table], LAMBDA r : Holds(r, st.where, keys))  \* LIMIT 1
    IN  IF hit = 0 THEN db ELSE [db EXCEPT ![st.table][hit] = Row(st.set, values) @@ @]

\* A column of a row that is made up of the rows of several aliases.
Column(joined, column) == joined[column[1]][column[2]]

\* Joins are made in their order, each with what has been joined before.
db_select(db, st) ==
    LET Join(found, j) ==
            FlattenSeq([i \in DOMAIN found |->
                LET fits == SelectSeq(db[j.table], LAMBDA r :
                        /\ j.on[1] \in DOMAIN found[i] /\ j.on[2] \in DOMAIN found[i][j.on[1]]
                        /\ j.key \in DOMAIN r
                        /\ r[j.key] = Column(found[i], j.on))
                IN  [k \in DOMAIN fits |-> (j.alias :> fits[k]) @@ found[i]]])
        all == FoldLeft(Join, [i \in DOMAIN db[st.table] |-> <<st.table>> :> db[st.table][i]], st.joins)
        chosen == SelectSeq(all, LAMBDA joined :
                    \A i \in DOMAIN st.where : Column(joined, st.where[i]) = st.params[i])
    IN  [i \in DOMAIN chosen |->
            [k \in DOMAIN st.columns |-> <<st.columns[k], Column(chosen[i], st.columns[k])>>]]

---------------------------------------------------------------------------
(* insert.hpp *)

ValuesOf(T, e) ==
    [i \in DOMAIN members_value(T) |-> <<members_value(T)[i].name, e[members_value(T)[i].name]>>]

RECURSIVE insert(_, _, _, _, _)

\* The entities that an entity has, whose ids are columns of its row.  They are
\* arguments of one call, so that a compiler may take them from the last to the
\* first.
insert_children(db, T, e, backwards) ==
    FoldLeft(LAMBDA made, m :
                LET r == insert(made.db, m.type, e[m.name], <<>>, backwards)
                IN  [db |-> r.db, ids |-> (m.name :> r.id) @@ made.ids],
             [db |-> db, ids |-> <<>>],
             IF backwards THEN Reverse(members_child(T)) ELSE members_child(T))

\* The rows of a container, each with the keys it is given.
insert_container(db, T, es, keys, backwards) ==
    FoldLeft(LAMBDA d, x : insert(d, T, x, keys, backwards).db, db, es)

\* First the entities it has, then itself, then the containers, whose rows have
\* its id.
insert(db, T, e, keys, backwards) ==
    LET children == insert_children(db, T, e, backwards)
        ids == [i \in DOMAIN members_child(T) |->
                    <<member_key_name(members_child(T)[i]), children.ids[members_child(T)[i].name]>>]
        self == db_insert(children.db, T, keys \o ids \o ValuesOf(T, e))
        Rows(d, m) == insert_container(d, m.type.of, e[m.name],
                                       <<<<table_key_name(T), self.id>>>>, backwards)
    IN  [id |-> self.id, db |-> FoldLeft(Rows, self.db, members_multirow(T))]

\* update.hpp: the values of one row.
update(db, T, e, keys) == db_update(db, UpdateStatement(table_name(T), ValuesOf(T, e), keys))

---------------------------------------------------------------------------
(* table_alias_list.hpp: an alias is the way to a member, from the table on. *)

RECURSIVE member_alias_list(_, _), aliased_column_names(_, _)
\* Breadth first below each member: a member comes before those it has.
member_alias_list(prefix, members) ==
    [i \in DOMAIN members |->
        [member |-> members[i], alias |-> Append(prefix, members[i].name), parent |-> prefix]]
    \o FlattenSeq([i \in DOMAIN members |->
        member_alias_list(Append(prefix, members[i].name), members_child(members[i].type))])
table_alias_list(T) == member_alias_list(<<table_name(T)>>, members_child(T))

aliased_column_name_list(alias, T) ==
    [i \in DOMAIN members_value(T) |-> <<alias, members_value(T)[i].name>>]
aliased_column_names(prefix, members) ==
    LET Alias(i) == Append(prefix, members[i].name)
    IN  FlattenSeq([i \in DOMAIN members |-> aliased_column_name_list(Alias(i), members[i].type)])
        \o FlattenSeq([i \in DOMAIN members |->
                aliased_column_names(Alias(i), members_child(members[i].type))])
columns_clause(T) ==
    aliased_column_name_list(<<table_name(T)>>, T)
    \o aliased_column_names(<<table_name(T)>>, members_child(T))

\* (bug: the column is named for the table and not for the member)
join_clause_ByTable(r) ==
    [table |-> table_name(r.member.type), alias |-> r.alias,
     on |-> <<r.parent, table_key_name(r.member.type)>>, key |-> table_key_name(r.member.type)]

join_clause(r) ==
    [table |-> table_name(r.member.type), alias |-> r.alias,
     on |-> <<r.parent, member_key_name(r.member)>>, key |-> table_key_name(r.member.type)]
join_clauses(T) == [i \in DOMAIN table_alias_list(T) |-> join_clause(table_alias_list(T)[i])]

select_primary_key_name(T) == <<<<table_name(T)>>, table_key_name(T)>>
select(db, T, keys) ==
    db_select(db, SelectStatement(table_name(T), columns_clause(T), join_clauses(T), keys))

---------------------------------------------------------------------------
(* What an entity consists of: each value with the way to it. *)
RECURSIVE Leaves(_, _, _)
Leaves(T, e, way) ==
    UNION {LET m == T.members[i]
           IN  CASE m.type.kind = "value" -> {<<<<way, m.name>>, e[m.name]>>}
                 [] m.type.kind = "entity" -> Leaves(m.type, e[m.name], Append(way, m.name))
                 [] m.type.kind = "container" -> {} : i \in DOMAIN T.members}

\* The entities of the tests, and one that has two of the same type.
Foo == Entity("foo", <<Member("foo_value", ValueType)>>)
Bar == Entity("bar", <<Member("bar_value", ValueType), Member("bar_foo", Foo)>>)
Baz == Entity("baz", <<Member("baz_value", ValueType), Member("baz_foo", Foo), Member("baz_bar", Bar)>>)
Two == Entity("two", <<Member("left", Bar), Member("right", Bar), Member("two_value", ValueType)>>)
Boo == Entity("boo", <<Member("foo_list", Container(Foo))>>)
NoRows == [t \in {"foo", "bar", "baz", "two", "boo"} |-> <<>>]
InsertAll(entities, backwards) ==
    FoldLeft(LAMBDA made, x :
                LET r == insert(made.db, x.type, x.value, <<>>, backwards)
                IN  [db |-> r.db, ids |-> Append(made.ids, r.id)],
             [db |-> NoRows, ids |-> <<>>], entities)
=============================================================================
