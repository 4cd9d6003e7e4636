----------------------------- MODULE CovidApi -----------------------------
(***************************************************************************)
(* The Flask endpoints /predict and /batch_predict of                      *)
(* src/workspace/covid19_api.py.  The handlers share only the model loaded *)
(* at import, which they only read, so each request is a pure function of  *)
(* its body; a request is one step.                                        *)
(*                                                                         *)
(* A JSON body is a record: an object (its fields, a function from the    *)
(* keys present to their values), a list of JSON values, null, a number,  *)
(* or a body request.get_json() cannot parse.  A field value is a number  *)
(* Num(n), JSON null or a string.  The pickled model is the operator      *)
(* ModelPredict; scikit-learn's input validation makes model.predict      *)
(* raise unless the three features are numbers.  A rate is kept in        *)
(* hundredths of a percent, as round(x, 2) leaves it; a float division by *)
(* zero yields "inf" or "nan" (numpy warns, it does not raise).           *)
(***************************************************************************)
EXTENDS Integers, Sequences

CONSTANTS
    ModelPredict(_, _, _),  \* model.predict([[c, r, a]])[0], for numbers
    Bodies                  \* request bodies a client may send

\* The 400 response of the `except Exception` clauses (and of the
\* explicit list check of batch_predict).
Error == [status |-> 400]

\* A JSON number as a field value.
Num(n) == [t |-> "number", n |-> n]

\* data.get(key, 0) on a parsed object.
Get(obj, k) == IF k \in DOMAIN obj.fields THEN obj.fields[k] ELSE Num(0)

\* round(prediction / confirmed * 100, 2), in hundredths, half up.
Percent(p, c) == (2 * p * 10000 + c) \div (2 * c)

\* prediction / confirmed * 100 with confirmed = 0, as numpy computes it.
DivByZero(p) == IF p = 0 THEN [t |-> "nan"] ELSE [t |-> "inf"]

\* The body of a successful prediction.
Result(p, rate, c, r, a) ==
    [prediction |-> p, mortality_rate |-> rate,
     input |-> [confirmed |-> c, recovered |-> r, active |-> a]]

\* The mortality rate of predict, guarded by `if confirmed > 0`.
PredictRate(p, c) == IF c > 0 THEN Num(Percent(p, c)) ELSE Num(0)

\* Mutant: the guard of batch_predict written `if confirmed >= 0`.
BatchRateNonNeg(p, c) ==
    IF c >= 0 THEN (IF c = 0 THEN DivByZero(p) ELSE Num(Percent(p, c))) ELSE Num(0)

\* The same computation, written again in the loop of batch_predict.
BatchRate(p, c) == IF c > 0 THEN Num(Percent(p, c)) ELSE Num(0)

\* data.get of the three features, model.predict and the response body;
\* get_json() raising, .get on a value that is not an object and
\* model.predict rejecting a feature all raise.
Prediction(obj, handler) ==
    IF obj.t # "object" THEN Error
    ELSE LET c == Get(obj, "confirmed")
             r == Get(obj, "recovered")
             a == Get(obj, "active")
         IN IF \A v \in {c, r, a} : v.t = "number"
            THEN LET p == ModelPredict(c.n, r.n, a.n)
                     rate == IF handler = "predict" THEN PredictRate(p, c.n)
                             ELSE BatchRate(p, c.n)
                 IN [status |-> 200, result |-> Result(p, rate, c, r, a)]
            ELSE Error

\* predict(): any exception ends in the except clause with status 400.
Predict(body) == Prediction(body, "predict")

\* One iteration of the loop of batch_predict: an exception leaves the loop
\* and the whole request ends in the except clause.
BatchItem(item) == Prediction(item, "batch_predict")

\* batch_predict(): a body that is not a list is refused; otherwise the
\* results of all items, unless one of them raises.
BatchPredict(body) ==
    IF body.t # "list" THEN Error
    ELSE LET rs == [i \in DOMAIN body.items |-> BatchItem(body.items[i])]
         IN IF \E i \in DOMAIN rs : rs[i].status # 200 THEN Error
            ELSE [status |-> 200, results |-> [i \in DOMAIN rs |-> rs[i].result]]

VARIABLES body, predictResp, batchResp

vars == <<body, predictResp, batchResp>>

Init ==
    /\ body = [t |-> "none"]
    /\ predictResp = [status |-> 0]
    /\ batchResp = [status |-> 0]

\* A client posts the same body to /predict and to /batch_predict.
Request(b) ==
    /\ body' = b
    /\ predictResp' = Predict(b)
    /\ batchResp' = BatchPredict(b)

Next == \E b \in Bodies : Request(b)

Spec == Init /\ [][Next]_vars

(***************************************************************************)
(* Properties.                                                             *)
(***************************************************************************)

\* /batch_predict on a list answers exactly what /predict answers for each
\* item: it succeeds iff every item alone would, and then its i-th result
\* is /predict's result for item i.  One bad item fails the whole batch
\* (the single try around the loop), never just its own entry.
BatchIsPredictPerItem ==
    body.t = "list" =>
        /\ batchResp.status = 200 <=>
               \A i \in DOMAIN body.items : Predict(body.items[i]).status = 200
        /\ batchResp.status = 200 =>
               \A i \in DOMAIN body.items :
                   batchResp.results[i] = Predict(body.items[i]).result

=============================================================================
