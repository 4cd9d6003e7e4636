------------------------- MODULE MCDatasetParsers -------------------------
(***************************************************************************)
(* One call of the file-reader plugin on one file.  Either parse_json over *)
(* a JSON value of nesting depth at most 3 whose lists and dicts have at   *)
(* most Width entries, together with the table preview over small row     *)
(* counts, for small max_items; or parse_dataset on a named file.  The    *)
(* names exercise os.path.splitext and lower(): lower- and upper-case      *)
(* extensions, a dot in a directory name, a name that is only a            *)
(* dot-extension, and an unsupported extension.  Such a file holds a table *)
(* of 0..MaxRows rows (a JSON file: a list of that many leaves or dicts)   *)
(* in a workbook of 1..MaxSheets sheets.                                   *)
(***************************************************************************)
EXTENDS DatasetParsers, SequencesExt

CONSTANTS
    MaxItemsValues,   \* max_items / max_rows passed by the caller
    Width,            \* most entries in one list or dict
    MaxRows,          \* most rows in a table
    MaxSheets,        \* most sheets in a workbook
    MaxRowsArgs       \* max_rows values passed to parse_dataset

\* max_rows values including a negative one.
MCSignedMaxItems == {-1, 0, 1, 2}

Leaf == [t |-> "leaf", items |-> << >>]
Deeper(S) == S \cup {[t |-> k, items |-> s] : k \in {"list", "dict"}, s \in SeqOf(S, Width)}
JsonValues == Deeper(Deeper(Deeper({Leaf})))

Names == {
    <<"d", ".", "c", "s", "v">>,
    <<"D", ".", "C", "S", "V">>,
    <<"a", ".", "b", "/", "d", ".", "j", "s", "o", "n">>,
    <<"d", ".", "x", "l", "s", "x">>,
    <<"d", ".", "X", "L", "S">>,
    <<"d", ".", "P", "a", "r", "q", "u", "e", "t">>,
    <<".", "c", "s", "v">>,
    <<"a", ".", "b", "/", "d">>,
    <<"d", ".", "t", "x", "t">>}

Row == [t |-> "dict", items |-> <<Leaf>>]

JsonTables(n) == {[t |-> "list", items |-> [i \in 1 .. n |-> e]] : e \in {Leaf, Row}}

Files ==
    UNION {{[name |-> nm, rows |-> n, sheets |-> sh, data |-> d] :
              d \in JsonTables(n)} :
           nm \in Names, n \in 0 .. MaxRows, sh \in 1 .. MaxSheets}

\* The file slot of a behaviour that calls parse_json directly.
NoFile == [name |-> << >>, rows |-> 0, sheets |-> 1, data |-> Leaf]

VARIABLES
    call,                                    \* which entry point is called
    data, maxItems, totalRows, out, preview, \* parse_json and a table parser
    file, maxRows, result                    \* parse_dataset

vars == <<call, data, maxItems, totalRows, out, preview, file, maxRows, result>>

Init ==
    /\ \/ /\ call = "parse_json"
          /\ data \in JsonValues
          /\ maxItems \in MaxItemsValues
          /\ totalRows \in 0 .. MaxRows
          /\ file = NoFile /\ maxRows = 0
       \/ /\ call = "parse_dataset"
          /\ data = Leaf /\ maxItems = 0 /\ totalRows = 0
          /\ file \in Files
          /\ maxRows \in MaxRowsArgs
    /\ out = << >>
    /\ preview = [shown |-> 0, more |-> 0]
    /\ result = Outcome("none", FALSE, NoPreview)

\* One parse_json and one table-parser call on the file.
Parse ==
    /\ call = "parse_json"
    /\ out = << >>
    /\ out' = ParseJson(data, maxItems)
    /\ preview' = TablePreview(totalRows, maxItems)
    /\ UNCHANGED <<call, data, maxItems, totalRows, file, maxRows, result>>

\* One call parse_dataset(file_path, max_rows).
ParseFile ==
    /\ call = "parse_dataset"
    /\ result.parser = "none"
    /\ result' = ParseDataset(file, maxRows)
    /\ UNCHANGED <<call, data, maxItems, totalRows, out, preview, file, maxRows>>

Spec == Init /\ [][Parse \/ ParseFile]_vars

TypeOK ==
    /\ out \in Seq([ind : Nat, kind : LineKinds, n : Int])
    /\ preview \in [shown : Nat, more : Int]

AtTop(kinds) == {k \in DOMAIN out : out[k].ind = 0 /\ out[k].kind \in kinds}
SumN(ks) == FoldSet(LAMBDA k, acc : out[k].n + acc, 0, ks)

\* The top level of a JSON preview accounts for every entry exactly once:
\* the entries printed plus the count in "[...N more ... not shown...]"
\* equal the length of the list or dict (unless parsing failed).
TopLevelAccounted ==
    (out # << >> /\ IsContainer(data) /\ AtTop({"error"}) = {}) =>
        Cardinality(AtTop({"key", "keyleaf", "item", "entry"}))
          + SumN(AtTop({"rows", "inline"})) + SumN(AtTop({"more"}))
          = Len(data.items)

\* parse_json reports "Error parsing JSON file" only for files it cannot
\* read: a well-formed JSON value, here an array whose first item is an
\* object, is previewed without an exception from the DataFrame built of
\* its first max_items items.
NoErrorOnValidJson == AtTop({"error"}) = {}

\* max_rows is the "Maximum number of rows to display": the table preview
\* accounts for every row, rows shown plus the rows reported as not shown
\* equal the table's rows.
TableRowsAccounted ==
    out # << >> => preview.shown + preview.more = totalRows

\* parse_dataset "auto-detects and parses any supported dataset file": a
\* file whose extension (as os.path.splitext finds it, in any case) is
\* supported is previewed by a parser without an error, and the preview
\* accounts for all of its rows: shown plus reported as not shown.
DispatchPreviewsSupported ==
    (result.parser # "none" /\ Lower(SplitExt(file.name)) \in SupportedExts) =>
        /\ ~result.err
        /\ result.preview.shown + result.preview.more = file.rows

=============================================================================
