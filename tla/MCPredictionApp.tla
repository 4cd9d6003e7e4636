------------------------- MODULE MCPredictionApp -------------------------
(***************************************************************************)
(* The two clients of the COVID-19 prediction service, in one model: a    *)
(* browser session on the Streamlit app, or an HTTP client posting bodies *)
(* to the Flask API.  The two share only the read-only model, so an       *)
(* interleaving of them would add states and no behaviour; each behaviour *)
(* follows one client.                                                     *)
(*                                                                         *)
(* The app sees three countries in two WHO regions over two dates, with   *)
(* cumulative counts (Active = Confirmed - Deaths - Recovered), as in      *)
(* covid_19_clean_complete.csv.  Its inputs are 0, a value near one       *)
(* country's count, and the number_input defaults; all counts are in      *)
(* thousands.  The model is the linear fit those columns satisfy, so API  *)
(* predictions can be zero, positive or negative.  `confirmed` in a body   *)
(* takes a zero, a positive and a negative count, JSON null and a string; *)
(* the other two features a number or a string.  A missing key falls back *)
(* to data.get's default 0.                                                *)
(***************************************************************************)
EXTENDS PredictionApp, SequencesExt

MCModelPredict(c, r, a) == c - r - a

Row(country, region, date, c, d, r) ==
    [country |-> country, region |-> region, date |-> date,
     confirmed |-> c, deaths |-> d, recovered |-> r, active |-> c - d - r]

MCData == {
    Row("A", "EURO", 1, 10, 1, 4), Row("A", "EURO", 2, 20, 2, 8),
    Row("B", "EURO", 1, 5, 0, 1),  Row("B", "EURO", 2, 8, 1, 3),
    Row("C", "AFRO", 1, 2, 0, 0),  Row("C", "AFRO", 2, 4, 1, 1)}

MCInputValues == {0, 20, 100, 50, 45}

\* A JSON number in a request body, as CovidApi's Num.
JNum(n) == [t |-> "number", n |-> n]

ConfirmedValues == {JNum(0), JNum(2), JNum(-1), [t |-> "null"], [t |-> "string"]}
OtherValues == {JNum(1), [t |-> "string"]}

\* Objects with every subset of the three keys present.
Objects ==
    UNION {
      {[t |-> "object", fields |-> f] :
         f \in [K -> ConfirmedValues \cup OtherValues]} :
      K \in SUBSET {"confirmed", "recovered", "active"}}

\* Keep only the objects whose values fit their key.
WellTyped(o) ==
    \A k \in DOMAIN o.fields :
        o.fields[k] \in (IF k = "confirmed" THEN ConfirmedValues ELSE OtherValues)

Items == {o \in Objects : WellTyped(o)} \cup {[t |-> "null"], [t |-> "number"]}

\* Lists of at most MaxItems JSON values.
MaxItems == 2

MCBodies ==
    Items \cup {[t |-> "invalid"]}
    \cup {[t |-> "list", items |-> s] : s \in SeqOf(Items, MaxItems)}

VARIABLES client, body, predictResp, batchResp

serverVars == <<body, predictResp, batchResp>>
appVars == <<page, plotType, regionMetric, topMetric, inputs, screen>>

\* The Flask handlers over their own variables.
Server == INSTANCE CovidApi WITH Bodies <- MCBodies

ServiceInit ==
    /\ client \in {"browser", "http"}
    /\ Init
    /\ Server!Init

ServiceNext ==
    \/ client = "browser" /\ Next /\ UNCHANGED <<client, serverVars>>
    \/ client = "http" /\ Server!Next /\ UNCHANGED <<client, appVars>>

ServiceSpec == ServiceInit /\ [][ServiceNext]_<<client, serverVars, appVars>>

\* /batch_predict on a list answers what /predict answers for each item,
\* and fails as a whole when one item fails (CovidApi).
BatchIsPredictPerItem == Server!BatchIsPredictPerItem

====
