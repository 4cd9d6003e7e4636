--------------------------- MODULE PredictionApp ---------------------------
(***************************************************************************)
(* The Streamlit app of src/workspace/covid19_prediction_app.py.  Streamlit *)
(* reruns main() from the top whenever the user touches a widget; widget    *)
(* values persist between reruns, and st.button is TRUE only in the rerun   *)
(* its click caused.  The state is the widget values and the page the last *)
(* rerun drew; each user event is one action whose rerun redraws the page. *)
(*                                                                         *)
(* The dataset (load_data) is a set of rows, one per country and date,     *)
(* with the four counts; the model is the operator ModelPredict shared     *)
(* with the API (both load covid19_deaths_prediction_model.pkl).  Plots    *)
(* are abstracted to the metrics they draw, tables to their rows.         *)
(***************************************************************************)
EXTENDS Integers, FiniteSetsExt, TLC

CONSTANTS
    ModelPredict(_, _, _),  \* model.predict([[c, r, a]])[0]
    Data,                   \* rows of covid_19_clean_complete.csv
    InputValues,            \* values a number_input (min_value=0) can hold
    TopN                    \* the 10 of .head(10)

Metrics == {"confirmed", "deaths", "recovered", "active"}
Pages == {"Dashboard", "Predictions", "About"}
PlotTypes == {"All Metrics", "Confirmed Cases", "Deaths", "Recovered", "Active Cases"}
RegionMetrics == Metrics \cup {"mortality"}
TopMetrics == Metrics \cup {"mortality"}
\* The number_input defaults 100000, 50000 and 45000, in thousands: counts
\* are kept in thousands so that rates stay within TLC's integers.
Defaults == [confirmed |-> 100, recovered |-> 50, active |-> 45]
None == [shown |-> FALSE]

Total(rows, m) == FoldSet(LAMBDA r, acc : r[m] + acc, 0, rows)

\* df['Date'].max() and the rows of that date.
LatestDate == Max({r.date : r \in Data})
Latest == {r \in Data : r.date = LatestDate}

\* Global Statistics: the four sums over the latest date.
GlobalStats == [m \in Metrics |-> Total(Latest, m)]

\* df.groupby('Date')[...].sum(), and the series the elif chain plots.
TimeSeries == [d \in {r.date : r \in Data} |->
                  [m \in Metrics |-> Total({r \in Data : r.date = d}, m)]]
PlottedMetrics(plotType) ==
    CASE plotType = "All Metrics"     -> Metrics
      [] plotType = "Confirmed Cases" -> {"confirmed"}
      [] plotType = "Deaths"          -> {"deaths"}
      [] plotType = "Recovered"       -> {"recovered"}
      [] plotType = "Active Cases"    -> {"active"}

\* Regional Statistics: df.groupby('WHO Region')[...].sum() over the rows
\* of every date, and Deaths / Confirmed * 100 as a fraction.
RegionData ==
    [g \in {r.region : r \in Data} |->
        LET rows == {r \in Data : r.region = g}
        IN [m \in Metrics |-> Total(rows, m)]
           @@ [mortality |-> [num |-> Total(rows, "deaths"), den |-> Total(rows, "confirmed")]]]

\* The value a Top 10 table sorts a latest row by; a rate is compared as
\* a fraction (the latest rows have confirmed > 0).
Key(r, metric) == IF metric = "mortality" THEN [num |-> r.deaths, den |-> r.confirmed]
                  ELSE [num |-> r[metric], den |-> 1]
GreaterEq(x, y) == x.num * y.den >= y.num * x.den

\* sort_values(metric, ascending=False).head(10) on the latest rows: the
\* sort is not stable, so among ties any may be kept.
TopSets(metric) ==
    {S \in SUBSET Latest :
        /\ Cardinality(S) = IF Cardinality(Latest) < TopN THEN Cardinality(Latest) ELSE TopN
        /\ \A s \in S, o \in Latest \ S : GreaterEq(Key(s, metric), Key(o, metric))}

\* predict_deaths(confirmed, recovered, active).
PredictDeaths(c, r, a) == ModelPredict(c, r, a)

\* (prediction / confirmed) * 100 if confirmed > 0 else 0, as a fraction;
\* the :.2f of st.info is display formatting and left out.
AppRate(p, c) == IF c > 0 THEN [num |-> 100 * p, den |-> c] ELSE [num |-> 0, den |-> 1]

\* mortality_rate > global_mortality, before rounding.
AboveGlobal(p, c) ==
    LET g == GlobalStats
    IN IF c > 0 THEN p * g.confirmed > g.deaths * c ELSE 0 > g.deaths

\* Latest rows with confirmed * 0.8 <= Confirmed <= confirmed * 1.2.
SimilarCountries(c) == {r.country : r \in {x \in Latest : 4 * c <= 5 * x.confirmed /\ 5 * x.confirmed <= 6 * c}}

\* What one rerun of main() draws, given the widget values.
Dashboard(plotType, regionMetric, topMetric, top) ==
    [page |-> "Dashboard", global |-> GlobalStats, plotted |-> PlottedMetrics(plotType),
     regions |-> RegionData, regionMetric |-> regionMetric, top |-> top, topMetric |-> topMetric]

Predictions(in, clicked) ==
    [page |-> "Predictions",
     prediction |->
        IF ~clicked THEN None
        ELSE LET p == PredictDeaths(in.confirmed, in.recovered, in.active)
             IN [shown |-> TRUE, deaths |-> p, rate |-> AppRate(p, in.confirmed),
                 above |-> AboveGlobal(p, in.confirmed)],
     similar |-> SimilarCountries(in.confirmed)]

VARIABLES
    page, plotType, regionMetric, topMetric,   \* the selection widgets
    inputs,                                    \* the three number_inputs
    screen                                     \* what the last rerun drew

vars == <<page, plotType, regionMetric, topMetric, inputs, screen>>

Rerun(clicked) ==
    \/ /\ page' = "Dashboard"
       /\ \E top \in TopSets(topMetric') :
             screen' = Dashboard(plotType', regionMetric', topMetric', top)
    \/ /\ page' = "Predictions" /\ screen' = Predictions(inputs', clicked)
    \/ /\ page' = "About" /\ screen' = [page |-> "About"]

Init ==
    /\ page = "Dashboard" /\ plotType = "All Metrics"
    /\ regionMetric = "confirmed" /\ topMetric = "confirmed"
    /\ inputs = Defaults
    /\ \E top \in TopSets("confirmed") :
          screen = Dashboard(plotType, regionMetric, topMetric, top)

\* The sidebar radio.
SelectPage(p) ==
    /\ page' = p
    /\ UNCHANGED <<plotType, regionMetric, topMetric, inputs>>
    /\ Rerun(FALSE)

\* One of the three selectboxes of the Dashboard.
SelectOnDashboard ==
    /\ page = "Dashboard"
    /\ \/ \E t \in PlotTypes : plotType' = t /\ UNCHANGED <<regionMetric, topMetric>>
       \/ \E g \in RegionMetrics : regionMetric' = g /\ UNCHANGED <<plotType, topMetric>>
       \/ \E m \in TopMetrics : topMetric' = m /\ UNCHANGED <<plotType, regionMetric>>
    /\ UNCHANGED <<page, inputs>>
    /\ Rerun(FALSE)

\* A number_input of the Predictions page.
SetInput(k, v) ==
    /\ page = "Predictions"
    /\ inputs' = [inputs EXCEPT ![k] = v]
    /\ UNCHANGED <<page, plotType, regionMetric, topMetric>>
    /\ Rerun(FALSE)

\* st.button('Predict') clicked.
ClickPredict ==
    /\ page = "Predictions"
    /\ UNCHANGED <<page, plotType, regionMetric, topMetric, inputs>>
    /\ Rerun(TRUE)

Next ==
    \/ \E p \in Pages : SelectPage(p)
    \/ SelectOnDashboard
    \/ \E k \in {"confirmed", "recovered", "active"}, v \in InputValues : SetInput(k, v)
    \/ ClickPredict

Spec == Init /\ [][Next]_vars

(***************************************************************************)
(* Properties.                                                             *)
(***************************************************************************)

\* The WHO regions partition the countries, so the Regional Statistics
\* table adds up to the Global Statistics cards drawn above it on the same
\* page.
RegionsAddUpToGlobal ==
    screen.page = "Dashboard" =>
        \A m \in Metrics :
            FoldSet(LAMBDA g, acc : screen.regions[g][m] + acc, 0, DOMAIN screen.regions)
                = screen.global[m]

=============================================================================
