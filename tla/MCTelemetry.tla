---------------------------- MODULE MCTelemetry ----------------------------
(***************************************************************************)
(* An instance of Telemetry: one request through two services, in two      *)
(* batches, a request that reaches the changed function by another route,  *)
(* probe traces spelt in ways the two probe lists take differently, a      *)
(* cycle of parents, a parent that is never sent and malformed spans; the  *)
(* source has interface methods, which have no last line.                  *)
(***************************************************************************)
EXTENDS Telemetry

Wire(trace, id, parent, start, service, name) ==
    [trace |-> trace, id |-> id, parent |-> parent, start |-> start, service |-> service,
     name |-> name, kind |-> "internal", method |-> None, route |-> None,
     function |-> None, file |-> None, ids |-> TRUE, times |-> TRUE, parentOk |-> TRUE]

Server(w, method, route) == [w EXCEPT !.kind = "server", !.method = method, !.route = route]

Code(w, function, file) == [w EXCEPT !.function = function, !.file = file]

\* GET /cart of web calls POST /pay of pay.
cart == Server(Wire(1, 1, 0, 1, "web", "cart"), "GET", "/cart")
total == Code(Wire(1, 2, 1, 2, "web", "total"), "Total", "cart.go")
pay == Server(Code(Wire(1, 3, 2, 3, "pay", "pay"), "Charge", "pay.go"), "POST", "/pay")
\* GET /list of pay, with a malformed parent id.
list == [Server(Code(Wire(2, 4, 1, 4, "pay", "list"), "Charge", "pay.go"), "GET", "/list")
            EXCEPT !.parentOk = FALSE]
\* Probes, by name only.
ready == Wire(3, 5, 0, 6, "web", "GET /readyz")
live == Wire(4, 6, 0, 5, "", "/livez")
\* Two spans that are each other's parent, and one whose parent is missing.
left == Server(Code(Wire(5, 7, 8, 7, "pay", "loop"), "Charge", "pay.go"), "GET", "/loop")
right == Server(Wire(5, 8, 7, 8, "pay", "loop"), "GET", "/loop")
orphan == Server(Code(Wire(5, 9, 99, 9, "pay", "orphan"), "Refund", "pay.go"), "GET", "/orphan")
\* Malformed: an id, a time.
blank == [Wire(2, 10, 0, 1, "web", "blank") EXCEPT !.ids = FALSE]
late == [Wire(2, 11, 0, 1, "web", "late") EXCEPT !.times = FALSE]

MCExports ==
    [web |-> <<total, blank, cart>>, pay |-> <<pay, ready>>, more |-> <<list, late, orphan>>,
     other |-> <<live, left>>, rest |-> <<right, orphan, list>>, again |-> <<cart, pay>>]

MCFiles == {"cart.go", "pay.go"}

Func(nth, id, name, file, line, end) ==
    [nth |-> nth, id |-> id, name |-> name, file |-> file, line |-> line, end |-> end]

\* Methods of interfaces have no end: one between two functions, and two on the
\* line after the last function.
MCFuncs ==
    {Func(8, "Total", "Total", "cart.go", 1, 2), Func(2, "Cart.Sum", "Sum", "cart.go", 4, 0),
     Func(7, "Sum", "Sum", "cart.go", 7, 8),
     Func(3, "Charge", "Charge", "pay.go", 1, 2), Func(0, "A.Refund", "Refund", "pay.go", 4, 5),
     Func(1, "B.Refund", "Refund", "pay.go", 6, 7),
     Func(4, "Pay.Undo", "Undo", "pay.go", 9, 0), Func(5, "Pay.Void", "Void", "pay.go", 9, 0)}

MCCalls == {<<"Total", "Charge">>, <<"Total", "Cart.Sum">>, <<"Charge", "Pay.Void">>}

Change(path, lines) == [path |-> path, binary |-> FALSE, lines |-> lines]

MCDiffs ==
    {{Change("pay.go", {2, 3})}, {Change("cart.go", {1})}, {Change("pay.go", {6})},
     {Change("cart.go", {5})}, {Change("pay.go", {12})},
     {[Change("pay.go", {}) EXCEPT !.binary = TRUE], Change("new.go", {1})}}
=============================================================================
