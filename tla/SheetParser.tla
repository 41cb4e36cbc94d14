----------------------------- MODULE SheetParser ----------------------------
(***************************************************************************)
(* The parser of device workbooks (device-import.parser.ts): which lines   *)
(* of which sheet become device rows, and what names the device in them.   *)
(*                                                                         *)
(* A workbook is a sequence of sheets [name, lines], a line a sequence of  *)
(* cells.  Of a cell's text only the words that the parser looks for in it *)
(* count: `Words' (contains, starts with or is, as the code compares).     *)
(* Text that only goes into remarks, specifications or dates is left out.  *)
(***************************************************************************)
EXTENDS Integers, Sequences, FiniteSets

CONSTANTS
    Cells,          \* the texts a cell can have ...
    Words           \* ... and for each the words it contains, in lower case

Blank == ""

ASSUME ParserAssumption == Blank \in Cells /\ Words \in [Cells -> SUBSET STRING]

\* The first of some lines, columns or entries.
Lowest(S) == CHOOSE n \in S : \A m \in S : n <= m

\* The first entry <<word, value>> of a table whose word is among those said.
InferredFrom(table, said, default) ==
    LET hits == {i \in DOMAIN table : table[i][1] \in said}
    IN  IF hits = {} THEN default ELSE table[Lowest(hits)][2]

Inferred(table, text, default) == InferredFrom(table, Words[text], default)

SheetWords == << <<"rent", "rented">>, <<"smart", "smart">>, <<"mobile", "smart">>,
                 <<"tv", "tv">>, <<"television", "tv">> >>

SheetType(name) == Inferred(SheetWords, name, "laptop")

-----------------------------------------------------------------------------
(* The header line: the first that holds all words of one of the anchors;  *)
(* failing that the first with five cells filled in; failing that the      *)
(* first.  The lines up to it are not read as devices.                     *)

Anchors == [
    laptop |-> {{"asset number", "ram"}, {"service tag", "ram"}, {"asset number", "service tag"}},
    rented |-> {{"asset id", "asset type"}, {"asset id", "service tag"}, {"asset type", "service tag"}},
    smart  |-> {{"asst id", "asset status"}, {"asst id", "device"}, {"asset status", "project"},
                {"apple id", "project"}},
    tv     |-> {{"asst id", "asset status"}, {"asst id", "asset owner"}, {"asst id", "device"}}]

WordsOf(line) == UNION {Words[line[i]] : i \in DOMAIN line}
Filled(line) == {i \in DOMAIN line : line[i] # Blank}

HeaderLine(lines, type) ==
    LET anchored == {i \in DOMAIN lines : i <= 12 /\ \E a \in Anchors[type] : a \subseteq WordsOf(lines[i])}
        wide == {i \in DOMAIN lines : i <= 10 /\ Cardinality(Filled(lines[i])) >= 5}
    IN  Lowest(IF anchored # {} THEN anchored ELSE IF wide # {} THEN wide ELSE {1})

\* The cell under the first of the candidate headers, in the order of the
\* candidates, that a column within the line has.
Col(line, header, candidates) ==
    LET under(c) == {i \in DOMAIN header : c \in Words[header[i]]}
        hits == {k \in DOMAIN candidates : under(candidates[k]) # {}
                                           /\ Lowest(under(candidates[k])) \in DOMAIN line}
    IN  IF hits = {} THEN Blank ELSE line[Lowest(under(candidates[Lowest(hits)]))]

-----------------------------------------------------------------------------
(* The four kinds of rows.                                                 *)

StatusWords == << <<"instock", "AVAILABLE">>, <<"in stock", "AVAILABLE">>, <<"dead", "RETIRED">>,
                  <<"bench", "AVAILABLE">>, <<"vacant", "AVAILABLE">> >>

\* A status that is no known word is taken for the project the device is in.
ClassifyStatus(text) ==
    IF text = Blank THEN "AVAILABLE" ELSE Inferred(StatusWords, text, "ALLOCATED")

SmartStatusWords == << <<"in use", "ALLOCATED">>, <<"inuse", "ALLOCATED">>, <<"exchange", "RETIRED">>,
                       <<"dead", "RETIRED">>, <<"retired", "RETIRED">> >>

ClassifySmartStatus(text) == Inferred(SmartStatusWords, text, "AVAILABLE")

\* The words of devices that have a sheet of their own give "elsewhere".
SmartWords == <<
    <<"macbook", "elsewhere">>, <<"mac book", "elsewhere">>, <<"apple tv", "elsewhere">>,
    <<"fire tv", "elsewhere">>, <<"chromecast", "elsewhere">>, <<"iphone", "iPhone">>,
    <<"ipad", "iPad">>, <<"apple watch", "Smartwatch">>, <<"samsung watch", "Smartwatch">>,
    <<"galaxy watch", "Smartwatch">>, <<" tv", "elsewhere">>, <<"tab", "Tablet">> >>

\* Any watch of Apple's is an apple watch, and " tv" is none in "connectivity".
SmartCategory(model) ==
    LET said == Words[model]
        also == IF {"apple", "watch"} \subseteq said THEN {"apple watch"} ELSE {}
        never == IF "connectivity" \in said THEN {" tv"} ELSE {}
    IN  InferredFrom(SmartWords, (said \cup also) \ never, "Mobile")

\* The types of the categories; equipment of no category is of the type TV.
TVWords == <<
    <<"fire tv", "StreamingDevice">>, <<"roku", "StreamingDevice">>,
    <<"chromecast", "StreamingDevice">>, <<"apple tv", "StreamingDevice">>,
    <<"verifone", "PaymentTerminal">>, <<"essl", "AccessControl">>,
    <<"monitor", "Monitor">>, <<"lg 27", "Monitor">> >>

TVPrefixes == << <<"ifocus-tv", "TV">>, <<"viacom-tv", "TV">>, <<"ifocus-proj", "Projector">> >>

\* The asset number's prefix decides before the model.
TVType(asset, model) == Inferred(TVPrefixes, asset, Inferred(TVWords, model, "TV"))

LaptopWords == <<
    <<"macbook", "MacBook">>, <<"mac book", "MacBook">>, <<"monitor", "Monitor">>, <<"display", "Monitor">>,
    <<"desktop", "Desktop">>, <<"phone", "Phone">>, <<"mobile", "Phone">>,
    <<"tablet", "Tablet">>, <<"ipad", "Tablet">>, <<"keyboard", "Keyboard">>,
    <<"mouse", "Mouse">>, <<"headset", "Headset">>, <<"headphone", "Headset">> >>

InferType(hint) == Inferred(LaptopWords, hint, "Laptop")

\* A set of at most one row: none when none of the cells that matter is filled.
Row(asset, serial, type, status, dropped) ==
    IF dropped THEN {} ELSE {[asset |-> asset, serial |-> serial, type |-> type, status |-> status]}

LaptopRow(line, header) ==
    LET g(c) == Col(line, header, c)
        asset == g(<<"asset number", "asset no", "asset #">>)
        serial == g(<<"service tag", "serial number", "serial no">>)
        model == g(<<"model">>)
        category == g(<<"asset category", "category">>)
    IN  Row(asset, serial, InferType(IF category # Blank THEN category ELSE model),
            ClassifyStatus(g(<<"status">>)),
            {asset, serial, model, g(<<"user name/type", "user name", "username", "user">>)} = {Blank})

RentedRow(line, header) ==
    LET g(c) == Col(line, header, c)
        asset == g(<<"asset id", "asset number", "asset no">>)
        serial == g(<<"service tag", "serial number", "serial no">>)
    IN  Row(asset, serial, "Laptop", ClassifyStatus(g(<<"rental status", "status">>)),
            {asset, serial, g(<<"asset make", "make">>), g(<<"asset type">>)} = {Blank})

\* In these two sheets the model number stands for the serial number, and a row
\* without asset number and device is dropped whatever its serial.
SmartDeviceRow(line, header) ==
    LET g(c) == Col(line, header, c)
        asset == g(<<"asst id", "asset id", "asset number">>)
        model == g(<<"device">>)
        category == IF model = Blank THEN "Mobile" ELSE SmartCategory(model)
    IN  Row(asset, g(<<"model no">>), category, ClassifySmartStatus(g(<<"asset status">>)),
            {asset, model} = {Blank} \/ category = "elsewhere")

TVRow(line, header) ==
    LET g(c) == Col(line, header, c)
        asset == g(<<"asst id", "asset id", "asset number">>)
        model == g(<<"device">>)
    IN  Row(asset, g(<<"model no">>), TVType(asset, model), ClassifySmartStatus(g(<<"asset status">>)),
            asset = Blank /\ (model = Blank \/ Words[model] \cap {"total", "count"} # {}))

\* The statuses and types the rows can have.
RowStatus == {"AVAILABLE", "ALLOCATED", "RETIRED"}

DeviceTypes ==
    {"Laptop", "MacBook", "Monitor", "Desktop", "Phone", "Tablet", "Keyboard", "Mouse", "Headset",
     "Mobile", "iPhone", "iPad", "Smartwatch", "TV", "Projector", "StreamingDevice",
     "PaymentTerminal", "AccessControl"}

\* The row of a line under the header at line `top', if it has one.
RowAt(lines, i, type, top) ==
    IF i <= top \/ Filled(lines[i]) = {} THEN {}
    ELSE CASE type = "rented" -> RentedRow(lines[i], lines[top])
           [] type = "smart"  -> SmartDeviceRow(lines[i], lines[top])
           [] type = "tv"     -> TVRow(lines[i], lines[top])
           [] OTHER           -> LaptopRow(lines[i], lines[top])

RowsOf(lines, type, top) == [i \in DOMAIN lines |-> RowAt(lines, i, type, top)]

Rank(S, i) == Cardinality({j \in S : j <= i})
Nth(S, k) == CHOOSE i \in S : Rank(S, i) = k

\* What lines have a row for, in their order.
InOrder(rows) ==
    LET full == {i \in DOMAIN rows : rows[i] # {}}
    IN  [k \in 1..Cardinality(full) |-> CHOOSE r \in rows[Nth(full, k)] : TRUE]

\* The rows of a sheet; a line without one counts as blank.
ParseSheet(sheet) ==
    IF sheet.lines = <<>> THEN <<>>
    ELSE InOrder(RowsOf(sheet.lines, SheetType(sheet.name), HeaderLine(sheet.lines, SheetType(sheet.name))))

Parse(workbook) == [s \in DOMAIN workbook |-> ParseSheet(workbook[s])]
=============================================================================
