----------------------------- MODULE PdbStruct ------------------------------
(***************************************************************************)
(* The layout of one structure, out of the type stream of a symbol file    *)
(* (memflow-win32/src/offsets/pdb_struct.rs and pdb_struct/data.rs).       *)
(*                                                                         *)
(* PdbStruct::with walks the stream up to the named class, adds it, and    *)
(* then adds the types it needs, the highest index first, until none is    *)
(* left; the fields of all of them end up in one map.  A type of the       *)
(* stream refers only to types before it; parsing a type may fail.         *)
(*                                                                         *)
(* A record of the stream has a kind and                                   *)
(*   class:     name, fwd (a forward reference), fields (a type, 0: none)  *)
(*   enum:      underlying, fields                                         *)
(*   union, primitive, args, memberfn, bad: see type_name                  *)
(*   pointer (a modifier or an array is read the same way): to             *)
(*   memberfn:  to (the return type), args                                 *)
(*   args, methods: list                                                   *)
(*   fieldlist: members, continuation (a type, 0: none), where a member is *)
(*              [kind, name, type, offset]                                 *)
(***************************************************************************)
EXTENDS Integers, Sequences, FiniteSets, SequencesExt

VARIABLES
    types,         \* the type stream of the file
    class_name,    \* the structure that is wanted
    cursor,        \* type_iter: how far the stream and its index were read
    needed_types,  \* TypeSet
    added,         \* data.classes: their indices, the last one added first
    field_map,     \* field names to offsets
    parse          \* "idle", "scan", "needed", "ok", "error" or "panic"

pdb_vars == <<types, class_name, cursor, needed_types, added, field_map, parse>>

(* A type refers to types before it, and an overloaded method to one.      *)
IsList(s)   == s \in Seq(ToSet(s))
IsStream(s) ==
    /\ IsList(s)
    /\ \A i \in DOMAIN s : LET t == s[i]  lower == 0..(i - 1) IN
        /\ t.kind \in {"class", "enum"} => t.fields \in lower
        /\ t.kind = "enum" => t.underlying \in lower
        /\ t.kind \in {"pointer", "memberfn"} => t.to \in lower
        /\ t.kind = "memberfn" => t.args \in lower
        /\ t.kind \in {"args", "methods"} => ToSet(t.list) \subseteq lower
        /\ t.kind = "fieldlist" =>
            /\ IsList(t.members) /\ t.continuation \in lower
            /\ \A m \in ToSet(t.members) :
                    m.type \in lower /\ (m.kind = "overloaded" => m.type # 0)

----------------------------------------------------------------------------
(* Types, and what they need.  0 is the index of no type: needing it is an *)
(* error, as needing one that the finder has no index for.                 *)

Failed == {0}
NoType == 0

(* Class, Enumeration and Union are needed; a primitive or a type without  *)
(* a name is not.                                                          *)
type_name[i \in 0..Len(types)] ==
    IF i = NoType THEN Failed
    ELSE LET t == types[i] IN
        CASE t.kind = "bad"                           -> Failed
          [] t.kind \in {"class", "enum", "union"}    -> {i}
          [] t.kind = "pointer"                       -> type_name[t.to]
          [] OTHER                                    -> {}

argument_list(i) ==
    IF i # NoType /\ types[i].kind = "args"
    THEN UNION {type_name[t] : t \in ToSet(types[i].list)}
    ELSE Failed

(* Method::find *)
method(i) ==
    IF i # NoType /\ types[i].kind = "memberfn"
    THEN type_name[types[i].to] \cup argument_list(types[i].args)
    ELSE Failed

(* What Class::add_field needs for a member. *)
Panics(m) == m.kind = "overloaded" /\ types[m.type].kind \notin {"methods", "bad"}
add_field(m) ==
    CASE m.kind \in {"member", "base"} -> type_name[m.type]
      [] m.kind = "method"             -> method(m.type)
      [] m.kind = "overloaded"         ->
            IF types[m.type].kind = "methods"
            THEN UNION {method(t) : t \in ToSet(types[m.type].list)} ELSE Failed
      [] OTHER                         -> {}

(* Class::add_fields and Enum::add_fields: all members of a list and of its *)
(* continuations, in order; a list that is no list ends with <<"panic">>    *)
(* and one that cannot be parsed with <<"error">>.                          *)
Stop(why) == <<[kind |-> why, name |-> why, type |-> NoType, offset |-> 0]>>
add_fields[i \in 0..Len(types)] ==
    IF i = NoType THEN <<>>
    ELSE LET t == types[i] IN
        CASE t.kind = "fieldlist" -> t.members \o add_fields[t.continuation]
          [] t.kind = "bad"       -> Stop("error")
          [] OTHER                -> Stop("panic")

(* How adding the members ends: the first one that goes wrong decides. *)
Wrong(m)    == m.kind \in {"error", "panic"} \/ Panics(m) \/ NoType \in add_field(m)
Verdict(ms) ==
    IF \E k \in DOMAIN ms : Wrong(ms[k])
    THEN LET m == ms[CHOOSE k \in DOMAIN ms : Wrong(ms[k])
                                /\ \A l \in 1..(k - 1) : ~Wrong(ms[l])]
         IN  IF m.kind = "panic" \/ Panics(m) THEN "panic" ELSE "error"
    ELSE "ok"

(* What an enumeration needs besides: its fields are values and need none. *)
EnumVerdict(t) ==
    LET ms == add_fields[t.fields] IN
        IF NoType \in type_name[t.underlying] THEN "error"
        ELSE IF ms # <<>> /\ Last(ms).kind \in {"error", "panic"} THEN Last(ms).kind
        ELSE "ok"

Listed(i)      == add_fields[types[i].fields]
IsClass(i)     == types[i].kind = "class" /\ ~types[i].fwd
NewlyNeeded(i) == UNION {add_field(m) : m \in ToSet(Listed(i))}

----------------------------------------------------------------------------
(* PdbStruct::with *)

(* PDB::open and the type stream. *)
With(name) ==
    /\ parse \in {"idle", "ok", "error"}
    /\ class_name' = name /\ parse' = "scan"
    /\ cursor' = 0 /\ needed_types' = {} /\ added' = <<>> /\ field_map' = <<>>
    /\ UNCHANGED types

(* Data::add of type i, after which the needed types are those of rest.    *)
Add(i, rest) ==
    LET t == types[i]
        verdict == CASE t.kind = "bad"  -> "error"
                     [] t.kind = "enum" -> EnumVerdict(t)
                     [] IsClass(i)      -> Verdict(Listed(i))
                     [] OTHER           -> "ok"
    IN  /\ parse' = IF verdict = "ok" THEN "needed" ELSE verdict
        /\ added' = IF verdict = "ok" /\ IsClass(i) THEN <<i>> \o added ELSE added
        /\ needed_types' =
            IF verdict # "ok" THEN {}
            ELSE rest \cup CASE IsClass(i)      -> NewlyNeeded(i)
                             [] t.kind = "enum" -> type_name[t.underlying]
                             [] OTHER           -> {}

IsWanted(i) == IsClass(i) /\ types[i].name = class_name

(* The next type of the stream; one that cannot be parsed is passed over.  *)
ScanType ==
    /\ parse = "scan" /\ cursor < Len(types)
    /\ cursor' = cursor + 1
    /\ IF IsWanted(cursor') THEN Add(cursor', {})
       ELSE UNCHANGED <<parse, added, needed_types>>
    /\ UNCHANGED <<types, class_name, field_map>>

(* The end of the stream without the class is not an error. *)
ScanEnds ==
    /\ parse = "scan" /\ cursor = Len(types)
    /\ parse' = "needed"
    /\ UNCHANGED <<types, class_name, cursor, needed_types, added, field_map>>

(* mutant: the lowest needed type is taken first *)
last_needed_First == CHOOSE i \in needed_types : \A j \in needed_types : j >= i

highest(S)  == CHOOSE i \in S : \A j \in S : j <= i
last_needed == highest(needed_types)

AddNeeded ==
    /\ parse = "needed" /\ needed_types # {}
    /\ Add(last_needed, needed_types \ {last_needed})
    /\ UNCHANGED <<types, class_name, cursor, field_map>>

(* The members of type i, by position, that are fields named n.            *)
Places(i, n) == {k \in DOMAIN Listed(i) : Listed(i)[k].kind = "member" /\ Listed(i)[k].name = n}

(* field_map.insert for every field of every class, front to back: the     *)
(* last one of a name stays.                                               *)
FieldNames ==
    LET members == UNION {ToSet(Listed(i)) : i \in ToSet(added)}
    IN  {m.name : m \in {m \in members : m.kind = "member"}}
fields     ==
    [n \in FieldNames |->
        LET i == added[highest({k \in DOMAIN added : Places(added[k], n) # {}})]
        IN  Listed(i)[highest(Places(i, n))].offset]

Collect ==
    /\ parse = "needed" /\ needed_types = {}
    /\ parse' = "ok" /\ field_map' = fields
    /\ UNCHANGED <<types, class_name, cursor, needed_types, added>>

ParseStep == ScanType \/ ScanEnds \/ AddNeeded \/ Collect

(* find_field *)
find_field(name) == IF name \in DOMAIN field_map THEN {field_map[name]} ELSE {}

----------------------------------------------------------------------------
(* Properties *)

(* Every type is added at most once - taking the highest needed index      *)
(* first is what keeps PdbStruct::with from walking a shared type again -  *)
(* and a field of the structure itself is found with its own offset, also  *)
(* when a structure nested in it has a field of the same name.             *)
AddedOnce ==
    /\ IsInjective(added)
    /\ parse = "ok" /\ added # <<>> =>
        LET own == Listed(Last(added)) IN
            /\ types[Last(added)].name = class_name
            /\ \A k \in DOMAIN own :
                   k \in Places(Last(added), own[k].name)
                     /\ (\A l \in Places(Last(added), own[k].name) : l <= k)
                         => find_field(own[k].name) = {own[k].offset}

=============================================================================
