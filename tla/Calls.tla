-------------------------------- MODULE Calls --------------------------------
(* Which native function a call from a script reaches, and what it is given                   *)
(* (sdk/bridge.hpp: function_args, function, function_data, Function, FunctionData, Setters,  *)
(* Constructor, Getter).  Functions are declared by the types of their parameters; `check`    *)
(* of a type chooses the overload and `valid` may then refuse the call.                       *)
EXTENDS Integers, Sequences, FiniteSetsExt

CONSTANTS
    MaxArguments, \* bounds the arguments of a call
    Unlimited,    \* the arity of a function with a tail
    None          \* no tail, nothing bound

VARIABLES
    callee,       \* what is called
    bound,        \* the arguments FunctionData::bind keeps
    call          \* the last call: its receiver, its arguments, what it bound, its answer

callsVars == <<callee, bound, call>>

(* What scripts pass: numbers, a string, objects with a size, and a native object. *)
Numbers == {"small", "large"}
Fields == [plain |-> [size |-> "small"], wide |-> [size |-> "large"], leaf |-> <<>>]
Values == Numbers \cup {"text"} \cup DOMAIN Fields

-----------------------------------------------------------------------------
(* A type is the values its check takes, those its valid takes, those valid complains of,     *)
(* and, as a ghost, the values that the type means.                                           *)
Type(check, valid, says, means) ==
    [check |-> check, valid |-> valid, says |-> says, means |-> means]

(* Number, String, Array, Lambda, Value, interfaces: nothing but a check. *)
Reference(check) == Type(check, Values, {}, check)

(* A struct derived of one of them, with a valid of its own. *)
Checked(t, valid) == Type(t.check, valid, t.check \ valid, t.check \cap valid)

(* An interface takes its own class and those that registered an upcast to it. *)
Interface(own, upcast) == Reference(own \cup upcast)

Accepts(t, v) == v \in t.check => v \in t.valid

(* One of several types: the first must not refuse, nor may every other one. *)
Either(t, ts) ==
    LET All == {t} \cup {ts[i] : i \in DOMAIN ts}
        check == UNION {u.check : u \in All}
        Complains(u) == u.check \cap u.says
    IN Type(check,
            {v \in Values : Accepts(t, v) /\ \E i \in DOMAIN ts : Accepts(ts[i], v)},
            Complains(t) \cup Complains(ts[1]),
            {v \in check : \A u \in All : v \in u.check => v \in u.means})

(* Fields may be missing; the struct is refused when a field has complained. *)
Struct(objects, fields) ==
    LET Has(v, f) == f \in DOMAIN objects[v]
    IN Type({v \in DOMAIN objects :
                \A f \in DOMAIN fields : Has(v, f) => objects[v][f] \in fields[f].check},
            {v \in DOMAIN objects :
                \A f \in DOMAIN fields : Has(v, f) => objects[v][f] \notin fields[f].says},
            {v \in DOMAIN objects :
                \E f \in DOMAIN fields : Has(v, f) /\ objects[v][f] \in fields[f].says},
            {v \in DOMAIN objects :
                \A f \in DOMAIN fields : Has(v, f) => objects[v][f] \in fields[f].means})

(* A dictionary: an object, or a list of pairs, whose values are all of the type. *)
Dict(objects, lists, t) ==
    Reference({v \in DOMAIN objects :
                   \A f \in DOMAIN objects[v] : objects[v][f] \in t.check}
              \cup {v \in DOMAIN lists :
                        \A i \in DOMAIN lists[v] : Len(lists[v][i]) = 2
                                                   /\ lists[v][i][2] \in t.check})

-----------------------------------------------------------------------------
(* Overloads.  `of` is the values whose class has the function; a free function has any.      *)
Tailing(least, types) == [least |-> least, types |-> types]

Free(params, tail) == [form |-> "free", of |-> Values, params |-> params, tail |-> tail]
Member(of, params, tail) ==
    [form |-> "member", of |-> of, params |-> params, tail |-> tail]

(* A member that is given its own object takes no tail. *)
Selfish(of, params) == Member(of, params, None)

Fixed(o) == Len(o.params)
Arity(o) == IF o.tail = None THEN Fixed(o) ELSE Unlimited

Checks(params, args) == \A i \in DOMAIN params : args[i] \in params[i].check

Tailed(o, rest) == \A i \in DOMAIN rest : \E t \in o.tail.types : rest[i] \in t.check

After(s, n) == SubSeq(s, n + 1, Len(s))

CheckArgs(o, args) ==
    IF o.tail = None
      THEN Len(args) = Fixed(o) /\ Checks(o.params, args)
      ELSE /\ Len(args) >= Fixed(o) + o.tail.least
           /\ Checks(o.params, args)
           /\ Tailed(o, After(args, Fixed(o)))

Check(o, self, args) == self \in o.of /\ CheckArgs(o, args)

(* Only what is declared is validated; the tail never is, and members validate nothing. *)
Valid(o, args) == \A i \in DOMAIN o.params : args[i] \in o.params[i].valid

NoMatch == [kind |-> "no match", which |-> 0, fixed |-> <<>>, rest |-> <<>>]
Refused(i) == [kind |-> "refused", which |-> i, fixed |-> <<>>, rest |-> <<>>]
Reached(i, fixed, rest) == [kind |-> "called", which |-> i, fixed |-> fixed, rest |-> rest]

Invoke(os, i, args) ==
    IF os[i].form = "free" /\ ~Valid(os[i], args) THEN Refused(i)
    ELSE Reached(i, SubSeq(args, 1, Fixed(os[i])), After(args, Fixed(os[i])))

FirstOf(S) == IF S = {} THEN 0 ELSE Min(S)

(* Function: what no overload could take is cut off; then the first overload that checks. *)
\* Defect: cut to the first overload's arity.
CutToFirst(os) == Arity(os[1])
MostTaken(os) == Max({Arity(os[i]) : i \in DOMAIN os})

Call(os, self, args) ==
    LET cut == SubSeq(args, 1, Min({Len(args), MostTaken(os)}))
        i == FirstOf({j \in DOMAIN os : Check(os[j], self, cut)})
    IN IF i = 0 THEN NoMatch ELSE Invoke(os, i, cut)

-----------------------------------------------------------------------------
(* FunctionData: a function whose first arguments were bound. *)
Variadic(os) == \E i \in DOMAIN os : os[i].tail # None
Length(os) == Max({Fixed(os[i]) : i \in DOMAIN os})

\* Defect: a tail is counted from the first argument.
CountAll(o, argc, magic) ==
    /\ magic <= Fixed(o) /\ argc >= Fixed(o) - magic
    /\ IF o.tail = None THEN argc = Fixed(o) - magic ELSE argc >= o.tail.least
CheckCount(o, argc, magic) ==
    /\ magic <= Fixed(o) /\ argc >= Fixed(o) - magic
    /\ IF o.tail = None THEN argc = Fixed(o) - magic
       ELSE argc - (Fixed(o) - magic) >= o.tail.least

(* The i-th argument comes from what was bound or from the call. *)
Argument(data, args, i) == IF i <= Len(data) THEN data[i] ELSE args[i - Len(data)]
Arguments(o, data, args) == [i \in 1 .. Fixed(o) |-> Argument(data, args, i)]

\* Defect: the tail begins after as many arguments as there are parameters.
RestOfAll(o, data, args) == After(args, Fixed(o))
Rest(o, data, args) == After(args, Fixed(o) - Len(data))

CheckData(o, data, args) ==
    /\ CheckCount(o, Len(args), Len(data))
    /\ Checks(o.params, Arguments(o, data, args))
    /\ o.tail # None => Tailed(o, Rest(o, data, args))

InvokeData(os, i, data, args) ==
    IF ~Valid(os[i], Arguments(os[i], data, args)) THEN Refused(i)
    ELSE Reached(i, Arguments(os[i], data, args), Rest(os[i], data, args))

\* Defect: arguments are cut off although an overload takes any number.
CutAlways(os, data, args) == SubSeq(args, 1, Min({Len(args), Length(os) - Len(data)}))
CutData(os, data, args) ==
    IF Variadic(os) THEN args
    ELSE SubSeq(args, 1, Min({Len(args), Length(os) - Len(data)}))

CallBound(os, data, args) ==
    LET cut == CutData(os, data, args)
        i == FirstOf({j \in DOMAIN os : CheckData(os[j], data, cut)})
    IN IF i = 0 THEN NoMatch ELSE InvokeData(os, i, data, cut)

-----------------------------------------------------------------------------
(* Setters: one value, the first setter that checks, but the validation of the first.         *)
Set(os, self, v) ==
    LET i == FirstOf({j \in DOMAIN os : v \in os[j].params[1].check})
    IN IF self \notin os[1].of \/ i = 0 THEN NoMatch
       ELSE IF v \notin os[1].params[1].valid THEN Refused(i) ELSE Reached(i, <<v>>, <<>>)

(* Constructor: all arguments, none too many. *)
Construct(os, args) ==
    LET i == FirstOf({j \in DOMAIN os : Len(args) = Fixed(os[j])
                                        /\ Checks(os[j].params, args)})
    IN IF i = 0 THEN NoMatch
       ELSE IF ~Valid(os[i], args) THEN Refused(i) ELSE Reached(i, args, <<>>)

(* Getter: the object's own class or one with an upcast. *)
Get(os, self) == IF self \in os[1].of THEN Reached(1, <<>>, <<>>) ELSE NoMatch

Unconstructable == NoMatch

-----------------------------------------------------------------------------
(* What they call: functions like those of src/test/fdata.cpp, vararg.cpp, setter.cpp and      *)
(* struct.cpp, as what, on which objects, with which values.                                  *)
Number == Reference(Numbers)
Few == Checked(Number, {"small"})
String == Reference({"text"})
Node == Interface({}, {"leaf"})
Options == Struct(Fields, [size |-> Few])
Dictionary == Dict(Fields, <<>>, Number)
Tailing1 == Tailing(1, {String})

Callee(as, selves, passes, overloads) ==
    [as |-> as, selves |-> selves, passes |-> passes, overloads |-> overloads]

Callees == {
    Callee("data", {"text"}, {"small", "text"},
           <<Free(<<String, String>>, None), Free(<<String, Number>>, None)>>),
    Callee("data", {"text"}, Numbers \cup {"text"}, <<Free(<<Few, Number>>, Tailing1)>>),
    Callee("data", {"text"}, Numbers \cup {"text", "leaf"},
           <<Free(<<String, Number, Number>>, None), Free(<<String, Number>>, Tailing1)>>),
    Callee("data", {"text"}, {"small", "text"},
           <<Free(<<String>>, Tailing(0, {Reference(Values)}))>>),
    Callee("function", {"text"}, Values,
           <<Free(<<Few>>, None), Free(<<String, Options>>, None)>>),
    Callee("function", {"text", "leaf"}, Values,
           <<Selfish({"leaf"}, <<Few>>), Member({"leaf"}, <<>>, Tailing(1, {Node, String}))>>),
    Callee("function", {"text"}, Values, <<Free(<<Either(String, <<Few>>)>>, None)>>),
    Callee("setter", {"text", "leaf"}, Values,
           <<Member({"leaf"}, <<Number>>, None), Member({"leaf"}, <<String>>, None),
             Member({"leaf"}, <<Node>>, None)>>),
    Callee("constructor", {"text"}, Values,
           <<Free(<<>>, None), Free(<<Options>>, None), Free(<<String, Dictionary>>, None)>>),
    Callee("constructor", {"text"}, Values, <<>>),
    Callee("getter", {"text", "leaf"}, Values, <<Member({"leaf"}, <<>>, None)>>)}

As == callee.as
Overloads == callee.overloads

CallOf(self, args, answer) ==
    [bound |-> bound, self |-> self, args |-> args, answer |-> answer]

CallsInit == callee \in Callees /\ bound = None /\ call = None

Bind(data) ==
    /\ As = "data" /\ bound = None /\ Len(data) <= Length(Overloads)
    /\ bound' = data
    /\ UNCHANGED <<callee, call>>

Answer(self, args) ==
    CASE As = "function"    -> Call(Overloads, self, args)
      [] As = "data"        -> CallBound(Overloads, bound, args)
      [] As = "setter"      -> Set(Overloads, self, args[1])
      [] As = "getter"      -> Get(Overloads, self)
      [] As = "constructor" ->
            IF Overloads = <<>> THEN Unconstructable
            ELSE Construct(Overloads, args)

Takes(args) ==
    CASE As = "getter" -> args = <<>>
      [] As = "setter" -> Len(args) = 1
      [] OTHER                -> TRUE

CallIt(self, args) ==
    /\ call = None /\ Takes(args) /\ (As = "data" => bound # None)
    /\ call' = CallOf(self, args, Answer(self, args))
    /\ UNCHANGED <<callee, bound>>

CallsNext ==
    \E args \in UNION {[1 .. n -> callee.passes] : n \in 0 .. MaxArguments} :
        \/ Bind(args)
        \/ \E self \in callee.selves : CallIt(self, args)

-----------------------------------------------------------------------------
Bound(os, data) == \A i \in DOMAIN os : os[i].tail # None => Len(data) <= Fixed(os[i])

(* Binding some arguments and calling with the others is calling with all of them.  (Not so   *)
(* when more is bound than an overload with a tail has parameters: it then never matches.)    *)
BindingIsCalling ==
    (call # None /\ As = "data") =>
        (Bound(Overloads, call.bound)
           => call.answer = Call(Overloads, call.self, call.bound \o call.args))

(* A function is given what it declares: values its types mean, in their order, and a tail of *)
(* one of the tail's types and long enough.  Members are given what their types check.        *)
GivenAsDeclared ==
    (call # None /\ call.answer.kind = "called" /\ As # "getter") =>
        LET o == Overloads[call.answer.which]
            given == call.answer.fixed
        IN /\ Len(given) = Fixed(o)
           /\ \A i \in DOMAIN given : given[i] \in o.params[i].check
           /\ o.form = "free" => \A i \in DOMAIN given : given[i] \in o.params[i].means
           /\ IF o.tail = None THEN call.answer.rest = <<>>
              ELSE /\ Len(call.answer.rest) >= o.tail.least
                   /\ \A i \in DOMAIN call.answer.rest :
                        \E t \in o.tail.types : call.answer.rest[i] \in t.means
=============================================================================
