------------------------------- MODULE Saving -------------------------------
(***************************************************************************)
(* Values as text: save_object() and save_variable(), the older tagged     *)
(* format restore_object() still reads, the dump of the whole world, and   *)
(* JSON.  A value is a tagged tuple:                                       *)
(*   <<"nil">>, <<"int", n>>, <<"flt", its decimal text>>, <<"str", s>>,   *)
(*   <<"arr", items>>, <<"map", width, entries>> with entries <<key,       *)
(*   columns>>, <<"obj", i>> and <<"fun", owner, name, efun, args, coded>>,*)
(* where objects are numbered from 1 and 0 is one that is gone.  A text is *)
(* a string.  A position after the last character reads as "".             *)
(***************************************************************************)
EXTENDS Integers, Sequences, SequencesExt, TLC

Nil == <<"nil">>
Num(n) == <<"int", n>>
Str(s) == <<"str", s>>
Arr(items) == <<"arr", items>>

\* What a reader gives instead of a value: it threw, or it never returns.
Threw == <<"threw">>
Hangs == <<"hangs">>
Broken == {Threw, Hangs}

At(s, p) == IF p \in 1..Len(s) THEN SubSeq(s, p, p) ELSE ""
Rest(s, p) == IF p <= Len(s) THEN SubSeq(s, p, Len(s)) ELSE ""
Part(s, p, q) == IF p <= q /\ p <= Len(s) THEN SubSeq(s, p, IF q < Len(s) THEN q ELSE Len(s)) ELSE ""
Characters(s) == [i \in 1..Len(s) |-> At(s, i)]
Joined(texts) == FoldLeft(LAMBDA a, b : a \o b, "", texts)

\* The first place at or after p with one of the characters cs; 0 if none.
FindFrom(s, cs, p) ==
    LET found == {i \in p..Len(s) : At(s, i) \in cs}
    IN  IF found = {} THEN 0 ELSE Min(found)

DigitChars == {"0", "1", "2", "3", "4", "5", "6", "7", "8", "9"}
DigitOf(c) == CHOOSE d \in 0..9 : ToString(d) = c
DigitsEnd(s, p) == Min({i \in p..(Len(s) + 1) : At(s, i) \notin DigitChars})

\* std::stoll: the number in front of the text, and an exception without one.
Stoll(t) ==
    LET minus == At(t, 1) = "-"
        from == IF minus THEN 2 ELSE 1
        to == DigitsEnd(t, from)
        n == FoldLeft(LAMBDA acc, c : 10 * acc + DigitOf(c), 0, Characters(Part(t, from, to - 1)))
    IN  IF to = from THEN Threw ELSE Num(IF minus THEN 0 - n ELSE n)

-----------------------------------------------------------------------------
(* The format of save_object() and save_variable().                        *)

\* Mutant of SaveString: the backslash is not escaped.
SaveStringQuoteOnly(s) ==
    "\"" \o Joined([i \in 1..Len(s) |->
                CASE At(s, i) = "\"" -> "\\" \o At(s, i)
                  [] At(s, i) = "\n" -> "\r"
                  [] OTHER -> At(s, i)]) \o "\""

\* A newline is written as a carriage return, so that a value stays on its line.
SaveString(s) ==
    "\"" \o Joined([i \in 1..Len(s) |->
                CASE At(s, i) \in {"\"", "\\"} -> "\\" \o At(s, i)
                  [] At(s, i) = "\n" -> "\r"
                  [] OTHER -> At(s, i)]) \o "\""

RECURSIVE WriteRealSaveValue(_)
WriteRealSaveValue(v) ==
    LET columns(cs) == Joined([c \in 1..Len(cs) |->
                                  (IF c = 1 THEN "" ELSE ";") \o WriteRealSaveValue(cs[c])])
    IN  CASE v[1] = "nil" -> "0"
          [] v[1] = "int" -> ToString(v[2])
          [] v[1] = "flt" -> v[2]
          [] v[1] = "str" -> SaveString(v[2])
          [] v[1] = "arr" ->
                 "({" \o Joined([i \in 1..Len(v[2]) |-> WriteRealSaveValue(v[2][i]) \o ","]) \o "})"
          [] v[1] = "map" ->
                 "([" \o Joined([i \in 1..Len(v[3]) |->
                            WriteRealSaveValue(v[3][i][1]) \o ":" \o columns(v[3][i][2]) \o ","])
                      \o "])"
          [] OTHER -> ""

\* Readers give a value and the position after it.
RECURSIVE UnescapedFrom(_, _, _)
UnescapedFrom(s, p, done) ==
    LET c == At(s, p)
    IN  CASE c \in {"", "\""} -> [v |-> Str(done), pos |-> IF c = "" THEN p ELSE p + 1]
          [] c = "\\" /\ p < Len(s) -> UnescapedFrom(s, p + 2, done \o At(s, p + 1))
          [] c = "\r" -> UnescapedFrom(s, p + 1, done \o "\n")
          [] OTHER -> UnescapedFrom(s, p + 1, done \o c)

ParseRealSaveString(s, p) == UnescapedFrom(s, p, "")

ParseRealSaveNumber(s, p) ==
    LET whole == DigitsEnd(s, IF At(s, p) = "-" THEN p + 1 ELSE p)
        end == IF At(s, whole) = "." THEN DigitsEnd(s, whole + 1) ELSE whole
    IN  [v |-> IF end # whole THEN <<"flt", Part(s, p, end - 1)>> ELSE Stoll(Part(s, p, end - 1)),
         pos |-> end]

After(s, p, c) == IF At(s, p) = c THEN p + 1 ELSE p

\* Rows shorter than the widest are filled with 0.
MappingOf(rows) ==
    LET width == Max({1} \union {Len(rows[i][2]) : i \in 1..Len(rows)})
    IN  <<"map", width, [i \in 1..Len(rows) |->
            <<rows[i][1], [c \in 1..width |->
                IF c <= Len(rows[i][2]) THEN rows[i][2][c] ELSE Num(0)]>>]>>

\* Anything that starts no value is a 0 of no characters, so a loop over
\* elements that meets it makes no progress.
RECURSIVE ParseRealSaveValue(_, _), SavedItems(_, _, _), SavedRows(_, _, _), SavedColumns(_, _, _)
ParseRealSaveValue(s, p) ==
    LET c == At(s, p)
        closed(r) == [v |-> r.v, pos |-> After(s, r.pos + 1, ")")]
    IN  CASE c = "\"" -> ParseRealSaveString(s, p + 1)
          [] c = "(" /\ At(s, p + 1) = "{" -> closed(SavedItems(s, p + 2, <<>>))
          [] c = "(" /\ At(s, p + 1) = "[" -> closed(SavedRows(s, p + 2, <<>>))
          [] c = "(" /\ At(s, p + 1) \notin {"{", "["} -> [v |-> Threw, pos |-> p]
          [] c \in DigitChars \union {"-"} -> ParseRealSaveNumber(s, p)
          [] OTHER -> [v |-> Num(0), pos |-> p]

SavedItems(s, p, items) ==
    LET item == ParseRealSaveValue(s, p)
        next == After(s, item.pos, ",")
    IN  IF At(s, p) \in {"", "}"} THEN [v |-> Arr(items), pos |-> p]
        ELSE IF At(s, p) = "," THEN SavedItems(s, p + 1, Append(items, Num(0)))
        ELSE IF item.v \in Broken THEN item
        ELSE IF next = p THEN [v |-> Hangs, pos |-> p]
        ELSE SavedItems(s, next, Append(items, item.v))

SavedColumns(s, p, columns) ==
    LET column == ParseRealSaveValue(s, p)
    IN  IF column.v \in Broken THEN column
        ELSE IF At(s, column.pos) = ";"
             THEN SavedColumns(s, column.pos + 1, Append(columns, column.v))
        ELSE [v |-> Arr(Append(columns, column.v)), pos |-> column.pos]

SavedRows(s, p, rows) ==
    LET key == ParseRealSaveValue(s, p)
        columns == SavedColumns(s, After(s, key.pos, ":"), <<>>)
        next == After(s, columns.pos, ",")
    IN  IF At(s, p) \in {"", "]"} THEN [v |-> MappingOf(rows), pos |-> p]
        ELSE IF key.v \in Broken THEN key
        ELSE IF columns.v \in Broken THEN columns
        ELSE IF next = p THEN [v |-> Hangs, pos |-> p]
        ELSE SavedRows(s, next, Append(rows, <<key.v, columns.v[2]>>))

-----------------------------------------------------------------------------
(* restore_variable().                                                     *)

RECURSIVE StrictFrom(_, _, _)
StrictFrom(s, p, done) ==
    LET c == At(s, p)
    IN  CASE c = "" -> Threw
          [] c = "\"" -> IF p = Len(s) THEN Str(done) ELSE Threw
          [] c = "\\" /\ p = Len(s) -> Threw
          [] c = "\\" /\ p < Len(s) ->
                 StrictFrom(s, p + 2, done \o (IF At(s, p + 1) = "\r" THEN "\n" ELSE At(s, p + 1)))
          [] c = "\r" -> StrictFrom(s, p + 1, done \o "\n")
          [] OTHER -> StrictFrom(s, p + 1, done \o c)

ParseRestoreVariableString(s) == StrictFrom(s, 2, "")

ParseRestoreVariableNumber(s) ==
    IF At(s, 1) = "-" /\ At(s, 2) \notin DigitChars THEN Threw
    ELSE ParseRealSaveNumber(s, 1).v

ParseRestoreVariableTopLevel(s) ==
    CASE s = "" -> Num(0)
      [] At(s, 1) = "\"" -> ParseRestoreVariableString(s)
      [] At(s, 1) \in DigitChars \union {"-"} -> ParseRestoreVariableNumber(s)
      [] OTHER -> ParseRealSaveValue(s, 1).v

-----------------------------------------------------------------------------
(* The tagged format: older saves, and the values of a dump.               *)

\* A field up to its delimiter.  Without one the whole rest is the field, and
\* reading goes on at the first character (npos + 1).
Field(s, p, cs) ==
    LET end == FindFrom(s, cs, p)
    IN  IF end = 0 THEN [text |-> Rest(s, p), pos |-> 1]
        ELSE [text |-> Part(s, p, end - 1), pos |-> end + 1]

\* A value of n characters with its count in front.
Counted(text) == ToString(Len(text)) \o ":" \o text

IdOf(i) == ToString(i - 1)

\* The pieces written to the file; the piece Exception ends the writing.
Exception == "<exception>"

RECURSIVE SerializeWorldValue(_, _)
SerializeWorldValue(v, n) ==
    LET all(values) == FlattenSeq([i \in 1..Len(values) |-> SerializeWorldValue(values[i], n)])
    IN  CASE v[1] = "int" -> <<"I" \o ToString(v[2]) \o ";">>
          [] v[1] = "flt" -> <<"F" \o v[2] \o ";">>
          [] v[1] = "str" -> <<"S" \o Counted(v[2])>>
          [] v[1] = "arr" -> <<"A" \o ToString(Len(v[2])) \o ":">> \o all(v[2])
          [] v[1] = "map" ->
                 <<"M" \o ToString(Len(v[3]))
                       \o (IF v[2] > 1 THEN "w" \o ToString(v[2]) ELSE "") \o ":">>
                 \o all(FlattenSeq([i \in 1..Len(v[3]) |-> <<v[3][i][1]>> \o v[3][i][2]]))
          [] v[1] = "obj" -> IF v[2] \in 1..n THEN <<"O" \o IdOf(v[2]) \o ";">> ELSE <<Exception>>
          [] v[1] = "fun" ->
                 IF v[6] THEN <<Exception>>
                 ELSE <<"C" \o (IF v[2] \in 1..n THEN IdOf(v[2]) ELSE "-1") \o ";"
                            \o (IF v[4] THEN "1" ELSE "0") \o ";"
                            \o Counted(v[3]) \o ToString(Len(v[5])) \o ";">> \o all(v[5])
          [] OTHER -> <<"N">>

\* The readers of a dump: a position of 0 means that an exception was thrown.
Thrown == [v |-> Threw, pos |-> 0]
Or(r) == IF r.pos = 0 \/ r.v \in Broken THEN Thrown ELSE r

NumberField(s, p, cs) ==
    LET f == Field(s, p, cs) IN IF p = 0 THEN Thrown ELSE Or([v |-> Stoll(f.text), pos |-> f.pos])

\* substr() throws past the end and gives what there is before it.
TextOf(s, p, len) ==
    IF p = 0 \/ p > Len(s) + 1 THEN Thrown
    ELSE [v |-> Str(Part(s, p, p + len - 1)), pos |-> p + len]

CountedText(s, p) ==
    LET len == NumberField(s, p, {":"})
    IN  IF len.pos = 0 THEN Thrown ELSE TextOf(s, len.pos, len.v[2])

\* old: a line of an older save, which knows neither objects, functions nor wide
\* mappings, and reads as 0 what could not be written.
RECURSIVE DeserializeWorldValue(_, _, _, _), DeserializeMany(_, _, _, _, _)
DeserializeWorldValue(s, p, ids, old) ==
    LET kind == At(s, p)
        number == NumberField(s, p + 1, {";"})
        count == NumberField(s, p + 1, {":"})
        items == DeserializeMany(s, count.pos, count.v[2], ids, old)
        seps == IF old THEN {":"} ELSE {":", "w"}
        sep == FindFrom(s, seps, p + 1)
        rows == NumberField(s, p + 1, seps)
        width == IF At(s, sep) = "w" THEN NumberField(s, rows.pos, {":"})
                 ELSE [v |-> Num(1), pos |-> rows.pos]
        wide == IF width.v[2] < 1 THEN 1 ELSE width.v[2]
        cells == DeserializeMany(s, width.pos, rows.v[2] * (wide + 1), ids, old)
        row(i) == SubSeq(cells.v[2], (i - 1) * (wide + 1) + 1, i * (wide + 1))
        efun == Field(s, number.pos, {";"})
        name == CountedText(s, efun.pos)
        bound == NumberField(s, name.pos, {";"})
        args == DeserializeMany(s, bound.pos, bound.v[2], ids, old)
        owner == IF number.v[2] \in DOMAIN ids THEN ids[number.v[2]] ELSE 0
    IN  CASE p = 0 -> Thrown
          [] p > Len(s) -> [v |-> Nil, pos |-> p]
          [] kind = "N" -> [v |-> IF old THEN Num(0) ELSE Nil, pos |-> p + 1]
          [] kind = "I" -> number
          [] kind = "F" ->
                 [v |-> <<"flt", Field(s, p + 1, {";"}).text>>, pos |-> Field(s, p + 1, {";"}).pos]
          [] kind = "S" -> CountedText(s, p + 1)
          [] kind = "A" -> IF count.pos = 0 THEN Thrown ELSE items
          [] kind = "M" ->
                 IF (sep = 0 /\ ~old) \/ rows.pos = 0 \/ width.pos = 0 \/ cells.pos = 0 THEN Thrown
                 ELSE [v |-> <<"map", wide, [i \in 1..rows.v[2] |-> <<row(i)[1], Tail(row(i))>>]>>,
                       pos |-> cells.pos]
          [] kind = "O" /\ ~old ->
                 IF number.pos = 0 THEN Thrown
                 ELSE [v |-> IF number.v[2] \in DOMAIN ids THEN <<"obj", ids[number.v[2]]>> ELSE Nil,
                       pos |-> number.pos]
          [] kind = "C" /\ ~old ->
                 IF number.pos = 0 \/ name.pos = 0 \/ bound.pos = 0 \/ args.pos = 0 THEN Thrown
                 ELSE [v |-> <<"fun", owner, name.v[2], efun.text = "1", args.v[2], FALSE>>,
                       pos |-> args.pos]
          [] OTHER -> Thrown

DeserializeMany(s, p, n, ids, old) ==
    LET one == DeserializeWorldValue(s, p, ids, old)
        more == DeserializeMany(s, one.pos, n - 1, ids, old)
    IN  IF n <= 0 THEN [v |-> Arr(<<>>), pos |-> p]
        ELSE IF one.pos = 0 \/ more.pos = 0 THEN Thrown
        ELSE [v |-> Arr(<<one.v>> \o more.v[2]), pos |-> more.pos]

DeserializeValue(s, p) == DeserializeWorldValue(s, p, <<>>, TRUE)

-----------------------------------------------------------------------------
(* save_object() and restore_object().                                     *)

\* names: the program's variables; the file is one line for each of them.
SaveObject(filename, names, vars) ==
    "#" \o filename \o "\n"
    \o Joined([i \in 1..Len(names) |-> names[i] \o " " \o WriteRealSaveValue(vars[i]) \o "\n"])

\* Mutant of RestoreLine: a line without a separator is taken for a name.
RestoreLineBare(line, names, state) ==
    LET sep == IF FindFrom(line, {" "}, 1) = 0 THEN Len(line) + 1 ELSE FindFrom(line, {" "}, 1)
        slots == {i \in 1..Len(names) : names[i] = Part(line, 1, sep - 1)}
        read == ParseRealSaveValue(line, sep + 1).v
    IN  IF state.end # "" \/ line = "" \/ At(line, 1) = "#" \/ slots = {} THEN state
        ELSE IF read \in Broken THEN [state EXCEPT !.end = read[1]]
        ELSE [state EXCEPT !.vars[Min(slots)] = read]

\* One line; a tab anywhere in it makes it a line of the older format.
RestoreLine(line, names, state) ==
    LET tab == FindFrom(line, {"\t"}, 1)
        sep == IF tab # 0 THEN tab ELSE FindFrom(line, {" "}, 1)
        slots == {i \in 1..Len(names) : names[i] = Part(line, 1, sep - 1)}
        read == IF tab # 0 THEN DeserializeValue(line, sep + 1).v
                ELSE ParseRealSaveValue(line, sep + 1).v
    IN  IF state.end # "" \/ line = "" \/ At(line, 1) = "#" \/ sep = 0 \/ slots = {} THEN state
        ELSE IF read \in Broken THEN [state EXCEPT !.end = read[1]]
        ELSE [state EXCEPT !.vars[Min(slots)] = read]

Lines(file) ==
    LET ends == SetToSortSeq({i \in 1..Len(file) : At(file, i) = "\n"} \union {Len(file) + 1}, <)
    IN  [k \in 1..Len(ends) |-> Part(file, IF k = 1 THEN 1 ELSE ends[k - 1] + 1, ends[k] - 1)]

\* What the variables become, and how the call ends: "" returns, otherwise an
\* error that leaves the lines read so far in place.
RestoreObject(file, names, vars) ==
    FoldLeft(LAMBDA state, line : RestoreLine(line, names, state),
             [vars |-> vars, end |-> ""], Lines(file))

-----------------------------------------------------------------------------
(* dump_state() and restore_state(): the world as a sequence of objects    *)
(* [clone, env, inv, file, vars], environment 0 for none.                  *)

Magic == "AMLPSTATE1\n"

Placement(world, i) ==
    LET o == world[i]
        inside == Joined([k \in 1..Len(o.inv) |-> (IF k = 1 THEN "" ELSE ",") \o IdOf(o.inv[k])])
    IN  IdOf(i) \o ";" \o (IF o.clone THEN "1" ELSE "0") \o ";" \o IdOf(o.env) \o ";"
        \o ToString(Len(o.inv)) \o ";" \o inside \o ";" \o Counted(o.file)

\* The file as it is when the call ends, by an exception or not: it is
\* truncated first and written as the objects are visited.
DumpState(world) ==
    LET n == Len(world)
        pieces == <<Magic, ToString(n) \o ";">>
                  \o [i \in 1..n |-> Placement(world, i)]
                  \o FlattenSeq([i \in 1..n |->
                         <<IdOf(i) \o ";" \o ToString(Len(world[i].vars)) \o ";">>
                         \o FlattenSeq([k \in 1..Len(world[i].vars) |->
                                           SerializeWorldValue(world[i].vars[k], n)])])
        thrown == {k \in 1..Len(pieces) : pieces[k] = Exception}
    IN  [threw |-> thrown # {},
         text |-> Joined(IF thrown = {} THEN pieces ELSE SubSeq(pieces, 1, Min(thrown) - 1))]

\* readIntField(): a missing delimiter is an error here.
IntField(s, p, delim) ==
    IF p = 0 \/ FindFrom(s, {delim}, p) = 0 THEN Thrown ELSE NumberField(s, p, {delim})

\* The k ids in front of a list; there must be as many as were announced.
InventoryIds(list, k) ==
    LET commas == SetToSortSeq({i \in 1..Len(list) : At(list, i) = ","} \union {Len(list) + 1}, <)
        token(j) == IF j > Len(commas) THEN ""
                    ELSE Part(list, IF j = 1 THEN 1 ELSE commas[j - 1] + 1, commas[j] - 1)
    IN  [j \in 1..k |-> Stoll(token(j))]

ReadPlacement(s, p) ==
    LET id == IntField(s, p, ";")
        clone == IntField(s, id.pos, ";")
        env == IntField(s, clone.pos, ";")
        held == IntField(s, env.pos, ";")
        list == Field(s, held.pos, {";"})
        inv == InventoryIds(list.text, held.v[2])
        file == CountedText(s, list.pos)
    IN  IF held.pos = 0 \/ FindFrom(s, {";"}, held.pos) = 0 THEN Thrown
        ELSE IF (\E j \in DOMAIN inv : inv[j] = Threw) \/ FindFrom(s, {":"}, list.pos) = 0
             \/ file.pos = 0 THEN Thrown
        ELSE [v |-> <<"entry", [id |-> id.v[2], clone |-> clone.v[2] # 0, env |-> env.v[2],
                                inv |-> [j \in DOMAIN inv |-> inv[j][2]], file |-> file.v[2]]>>,
              pos |-> file.pos]

RECURSIVE ReadPlacements(_, _, _, _)
ReadPlacements(s, p, n, done) ==
    LET one == ReadPlacement(s, p)
    IN  IF n <= 0 THEN [v |-> Arr(done), pos |-> p]
        ELSE IF one.pos = 0 THEN Thrown
        ELSE ReadPlacements(s, one.pos, n - 1, Append(done, one.v[2]))

\* fresh[file] says what create() does to a new object of the file: vars is what
\* it leaves in the variables, and home the file of the object that it moves the
\* new one into, "" for none.  A file outside fresh has no source.
RECURSIVE Made(_, _, _, _), Loaded(_, _, _)
Made(world, file, clone, fresh) ==
    LET i == Len(world) + 1
        born == Append(world, [clone |-> clone, env |-> 0, inv |-> <<>>, file |-> file,
                               vars |-> fresh[file].vars])
        home == Loaded(born, fresh[file].home, fresh)
        moved == [home.world EXCEPT ![i].env = home.at, ![home.at].inv = Append(@, i)]
    IN  IF file \notin DOMAIN fresh THEN [world |-> world, at |-> 0]
        ELSE [world |-> IF fresh[file].home = "" THEN born ELSE moved, at |-> i]

\* lookupLoadedObject(), or else loadObject().
Loaded(world, file, fresh) ==
    LET found == {i \in DOMAIN world : ~world[i].clone /\ world[i].file = file}
    IN  IF found # {} THEN [world |-> world, at |-> Min(found)] ELSE Made(world, file, FALSE, fresh)

\* Pass 1: an object for every entry, up to the first that cannot be had.  One
\* that is loaded already is taken as it is, wherever it is.
Rebuilt(entries, fresh, before) ==
    FoldLeft(LAMBDA done, e :
                LET r == IF e.clone THEN Made(done.world, e.file, TRUE, fresh)
                         ELSE Loaded(done.world, e.file, fresh)
                IN  IF 0 \in Range(done.at) THEN done
                    ELSE [world |-> r.world, at |-> Append(done.at, r.at)],
             [world |-> before, at |-> <<>>], entries)

\* Mutant of Placed: what an object holds already stays in it.
PlacedUncleared(entries, ids, world) ==
    FoldLeft(LAMBDA w, e :
                LET known == SelectSeq(e.inv, LAMBDA id : id \in DOMAIN ids)
                IN  [w EXCEPT ![ids[e.id]].env =
                                  IF e.env >= 0 /\ e.env \in DOMAIN ids THEN ids[e.env] ELSE @,
                              ![ids[e.id]].inv = @ \o [k \in DOMAIN known |-> ids[known[k]]]],
             world, entries)

\* Where the objects go.  One dumped without an environment keeps its own.
Placed(entries, ids, world) ==
    FoldLeft(LAMBDA w, e :
                LET known == SelectSeq(e.inv, LAMBDA id : id \in DOMAIN ids)
                IN  [w EXCEPT ![ids[e.id]].env =
                                  IF e.env >= 0 /\ e.env \in DOMAIN ids THEN ids[e.env] ELSE @,
                              ![ids[e.id]].inv = [k \in DOMAIN known |-> ids[known[k]]]],
             world, entries)

\* Section B: values go into the slots both sides have.
RECURSIVE RestoreVariables(_, _, _, _, _)
RestoreVariables(s, p, n, ids, world) ==
    LET id == IntField(s, p, ";")
        count == IntField(s, id.pos, ";")
        values == DeserializeMany(s, count.pos, count.v[2], ids, FALSE)
        i == ids[id.v[2]]
        put == [world EXCEPT ![i].vars =
                   [k \in DOMAIN @ |-> IF k <= Len(values.v[2]) THEN values.v[2][k] ELSE @[k]]]
    IN  IF n = 0 THEN [end |-> "true", world |-> world]
        ELSE IF count.pos = 0 \/ values.pos = 0 THEN [end |-> "threw", world |-> world]
        ELSE RestoreVariables(s, values.pos, n - 1, ids,
                              IF id.v[2] \in DOMAIN ids THEN put ELSE world)

\* at: the object that each entry of the dump became.
RestoreState(s, fresh, before) ==
    LET count == IntField(s, Len(Magic) + 1, ";")
        read == ReadPlacements(s, count.pos, count.v[2], <<>>)
        entries == read.v[2]
        rebuilt == Rebuilt(entries, fresh, before)
        ids == [id \in {entries[i].id : i \in DOMAIN entries} |->
                   rebuilt.at[Max({i \in DOMAIN entries : entries[i].id = id})]]
        filled == RestoreVariables(s, read.pos, Len(entries), ids, Placed(entries, ids, rebuilt.world))
    IN  IF Part(s, 1, Len(Magic)) # Magic THEN [end |-> "false", world |-> before, at |-> <<>>]
        ELSE IF count.pos = 0 \/ read.pos = 0 THEN [end |-> "threw", world |-> before, at |-> <<>>]
        ELSE IF 0 \in Range(rebuilt.at) THEN [end |-> "threw", world |-> rebuilt.world, at |-> <<>>]
        ELSE [end |-> filled.end, world |-> filled.world, at |-> rebuilt.at]
=============================================================================
