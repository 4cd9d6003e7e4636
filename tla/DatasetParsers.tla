--------------------------- MODULE DatasetParsers ---------------------------
(***************************************************************************)
(* The previews of src/openhands/runtime/plugins/agent_skills/file_reader/ *)
(* dataset_parsers.py.  What is printed is abstracted to one record per    *)
(* printed line: its indentation level, what kind of line it is, and the   *)
(* number it reports (a length, a count of entries not shown).  A JSON     *)
(* value is a leaf, or a list or dict whose entries are values (a dict's  *)
(* keys are distinct and abstracted to their positions).                  *)
(***************************************************************************)
EXTENDS Sequences, Integers, FiniteSetsExt

LineKinds == {"cut", "empty", "inline", "more", "key", "keyleaf", "item",
              "leaf", "array", "fields", "rows", "entry", "object",
              "primitive", "error"}

L(ind, kind, n) == [ind |-> ind, kind |-> kind, n |-> n]

IsContainer(v) == v.t \in {"list", "dict"}

MinOf(a, b) == IF a <= b THEN a ELSE b
MaxOf(a, b) == IF a >= b THEN a ELSE b

\* Python s[:m]: a negative bound counts from the end.
Slice(s, m) == IF m >= 0 THEN SubSeq(s, 1, MinOf(m, Len(s)))
                         ELSE SubSeq(s, 1, MaxOf(Len(s) + m, 0))

\* Printed lines so far, and whether an exception cut the printing short.
Ok(out) == [out |-> out, err |-> FALSE]
Fail(out) == [out |-> out, err |-> TRUE]
Then(r1, r2) == IF r1.err THEN r1 ELSE [out |-> r1.out \o r2.out, err |-> r2.err]

RECURSIVE PrintStructure(_, _, _, _), PrintDictFrom(_, _, _, _, _), PrintItemsFrom(_, _, _, _, _)

\* _print_json_structure(data, max_depth, current_depth, max_items)
PrintStructure(v, md, d, mi) ==
    CASE d >= md -> Ok(<<L(d, "cut", 0)>>)
      [] v.t = "dict" -> PrintDictFrom(v.items, 1, md, d, mi)
      [] v.t = "list" ->
            IF v.items = << >> THEN Ok(<<L(d, "empty", 0)>>)
            ELSE LET disp == Slice(v.items, mi)
                     more == IF Len(v.items) > mi
                               THEN Ok(<<L(d, "more", Len(v.items) - mi)>>) ELSE Ok(<< >>)
                 IN IF disp = << >> THEN Fail(<< >>)   \* display_items[0]
                    ELSE IF IsContainer(disp[1])
                      THEN Then(PrintItemsFrom(disp, 1, md, d, mi), more)
                      ELSE Then(Ok(<<L(d, "inline", Len(disp))>>), more)
      [] OTHER -> Ok(<<L(d, "leaf", 0)>>)

\* Mutant: the break test written `if i > max_items`.
PrintDictFromOffByOne(items, i, md, d, mi) ==
    IF i > Len(items) THEN Ok(<< >>)
    ELSE IF i - 1 > mi THEN Ok(<<L(d, "more", Len(items) - mi)>>)
    ELSE LET entry == IF IsContainer(items[i])
                        THEN Then(Ok(<<L(d, "key", 0)>>), PrintStructure(items[i], md, d + 1, mi))
                        ELSE Ok(<<L(d, "keyleaf", 0)>>)
         IN Then(entry, PrintDictFrom(items, i + 1, md, d, mi))

\* for i, (key, value) in enumerate(data.items()), from position i.
PrintDictFrom(items, i, md, d, mi) ==
    IF i > Len(items) THEN Ok(<< >>)
    ELSE IF i - 1 >= mi THEN Ok(<<L(d, "more", Len(items) - mi)>>)
    ELSE LET entry == IF IsContainer(items[i])
                        THEN Then(Ok(<<L(d, "key", 0)>>), PrintStructure(items[i], md, d + 1, mi))
                        ELSE Ok(<<L(d, "keyleaf", 0)>>)
         IN Then(entry, PrintDictFrom(items, i + 1, md, d, mi))

\* for i, item in enumerate(display_items), from position i.
PrintItemsFrom(disp, i, md, d, mi) ==
    IF i > Len(disp) THEN Ok(<< >>)
    ELSE Then(Then(Ok(<<L(d, "item", i - 1)>>), PrintStructure(disp[i], md, d + 1, mi)),
              PrintItemsFrom(disp, i + 1, md, d, mi))

\* pd.DataFrame(records) with a dict first takes pandas' list-of-dicts
\* path, which calls .keys() on every record: it raises when one is not a
\* dict (a scalar or a list).
DataFrameFails(records) == \E k \in DOMAIN records : records[k].t # "dict"

\* parse_json after json.load: the printed lines; an exception inside is
\* caught and reported on one more line.
ParseJson(data, mi) ==
    LET r == CASE data.t = "list" ->
                  LET disp == Slice(data.items, mi)
                      more == IF Len(data.items) > mi
                                THEN <<L(0, "more", Len(data.items) - mi)>> ELSE << >>
                      head == <<L(0, "array", Len(data.items)), L(0, "fields", 0)>>
                  IN IF data.items # << >> /\ data.items[1].t = "dict"
                     THEN IF DataFrameFails(disp) THEN Fail(head)
                          ELSE Ok(head \o <<L(0, "rows", Len(disp))>> \o more)
                     ELSE Ok(<<L(0, "array", Len(data.items))>>
                             \o [k \in DOMAIN disp |-> L(0, "entry", k - 1)] \o more)
               [] data.t = "dict" ->
                  Then(Ok(<<L(0, "object", Len(data.items))>>), PrintStructure(data, 2, 0, mi))
               [] OTHER -> Ok(<<L(0, "primitive", 0)>>)
    IN IF r.err THEN r.out \o <<L(0, "error", 0)>> ELSE r.out

\* The table parsers (CSV, Excel, Parquet): df.head(max_rows) and the
\* "[...N more rows not shown...]" line.
TablePreview(totalRows, maxRows) ==
    [shown |-> Len(Slice([k \in 1 .. totalRows |-> k], maxRows)),
     more  |-> IF totalRows > maxRows THEN totalRows - maxRows ELSE 0]


\* The index of the last `ch` in `p`, 0 when there is none (str.rfind + 1).
LastIndexOf(p, ch) ==
    LET is == {i \in DOMAIN p : p[i] = ch}
    IN IF is = {} THEN 0 ELSE Max(is)

\* os.path.splitext(p)[1]: from the last dot of the last path component,
\* unless everything before that dot in the component is dots.
SplitExt(p) ==
    LET sep == LastIndexOf(p, "/")
        dot == LastIndexOf(p, ".")
    IN IF dot > sep /\ \E i \in sep + 1 .. dot - 1 : p[i] # "."
       THEN SubSeq(p, dot, Len(p)) ELSE << >>

UpperAZ == <<"A","B","C","D","E","F","G","H","I","J","K","L","M",
             "N","O","P","Q","R","S","T","U","V","W","X","Y","Z">>
LowerAZ == <<"a","b","c","d","e","f","g","h","i","j","k","l","m",
             "n","o","p","q","r","s","t","u","v","w","x","y","z">>

\* str.lower() on ASCII characters.
Lower(s) == [i \in DOMAIN s |->
                IF \E k \in 1 .. 26 : UpperAZ[k] = s[i]
                THEN LowerAZ[CHOOSE k \in 1 .. 26 : UpperAZ[k] = s[i]] ELSE s[i]]

\* What one parser call shows: whether it ended in "Error parsing ...",
\* and the rows (or items) shown and reported as not shown.
Outcome(parser, err, pv) == [parser |-> parser, err |-> err, preview |-> pv]
NoPreview == [shown |-> 0, more |-> 0]

\* The top-level items parse_json printed and reported as not shown.
JsonPreview(out) ==
    LET top(kinds) == {k \in DOMAIN out : out[k].ind = 0 /\ out[k].kind \in kinds}
        sum(ks) == FoldSet(LAMBDA k, acc : out[k].n + acc, 0, ks)
    IN [shown |-> Cardinality(top({"entry"})) + sum(top({"rows"})),
        more  |-> sum(top({"more"}))]

\* parse_json on a file holding the JSON value f.data.
ParseJsonFile(f, maxItems) ==
    LET out == ParseJson(f.data, maxItems)
    IN Outcome("json", \E k \in DOMAIN out : out[k].kind = "error", JsonPreview(out))

\* parse_csv and parse_parquet on a file holding a table of f.rows rows.
ParseTableFile(parser, f, maxRows) ==
    Outcome(parser, FALSE, TablePreview(f.rows, maxRows))

\* parse_xlsx: sheet_names[sheet_index] raises IndexError outside the
\* workbook's f.sheets sheets (a negative index counts from the end).
ParseXlsx(f, sheetIndex, maxRows) ==
    IF sheetIndex \in -f.sheets .. f.sheets - 1
    THEN Outcome("xlsx", FALSE, TablePreview(f.rows, maxRows))
    ELSE Outcome("xlsx", TRUE, NoPreview)

Ext(s) == <<".">> \o s

SupportedExts ==
    {Ext(<<"c","s","v">>), Ext(<<"j","s","o","n">>), Ext(<<"x","l","s","x">>),
     Ext(<<"x","l","s">>), Ext(<<"p","a","r","q","u","e","t">>)}

\* Mutant: parse_xlsx(file_path, max_rows), max_rows taken as the sheet.
ParseDatasetSheetPositional(f, maxRows) ==
    LET ext == Lower(SplitExt(f.name))
    IN CASE ext = Ext(<<"c","s","v">>) -> ParseTableFile("csv", f, maxRows)
         [] ext = Ext(<<"j","s","o","n">>) -> ParseJsonFile(f, maxRows)
         [] ext \in {Ext(<<"x","l","s","x">>), Ext(<<"x","l","s">>)} -> ParseXlsx(f, maxRows, 10)
         [] ext = Ext(<<"p","a","r","q","u","e","t">>) -> ParseTableFile("parquet", f, maxRows)
         [] OTHER -> Outcome("unsupported", FALSE, NoPreview)

\* parse_dataset: dispatch on the lowercased extension.
ParseDataset(f, maxRows) ==
    LET ext == Lower(SplitExt(f.name))
    IN CASE ext = Ext(<<"c","s","v">>) -> ParseTableFile("csv", f, maxRows)
         [] ext = Ext(<<"j","s","o","n">>) -> ParseJsonFile(f, maxRows)
         [] ext \in {Ext(<<"x","l","s","x">>), Ext(<<"x","l","s">>)} -> ParseXlsx(f, 0, maxRows)
         [] ext = Ext(<<"p","a","r","q","u","e","t">>) -> ParseTableFile("parquet", f, maxRows)
         [] OTHER -> Outcome("unsupported", FALSE, NoPreview)

=============================================================================
