--------------------------- MODULE MCSemanticCall ---------------------------
(* A function with an input, a Python object and two outputs, and the ways *)
(* of calling it that the binding rules tell apart.                        *)
EXTENDS SemanticCall

MCParams == <<"a", "y", "o1", "o2">>
MCTyp == [a |-> "INPUT_LOC", y |-> "INPUT_PYOBJ",
          o1 |-> "OUTPUT_LOC", o2 |-> "OUTPUT_LOC"]

Text == Object("word")
Empty == Object(Nil)
None == Object(Unset)
Registered == Variable(<<"own", 1>>)

Arguments(args, kwargs) == [args |-> args, kwargs |-> kwargs]
NoKwargs == << >>

MCCalls ==
    {Arguments(<<a, y>>, NoKwargs) : a \in {Text, Registered},
                                     y \in {Text, Empty, None}}
    \cup {Arguments(<<Empty>>, [y |-> Registered]),      \* an object by id
          Arguments(<<Variable(NoId), Text>>, NoKwargs), \* not fetchable
          Arguments(<<Text>>, NoKwargs),                 \* y missing
          Arguments(<<Text, Text, Text>>, NoKwargs),     \* too many
          Arguments(<<Text>>, [a |-> Text, y |-> Text]), \* a twice
          Arguments(<<Text>>, [z |-> Text]),             \* unexpected
          Arguments(<<Text, Text>>, [o1 |-> Text]),      \* not a variable
          Arguments(<<Text, Text>>, [o1 |-> Registered]),
          Arguments(<<Text, Text>>, [o1 |-> Variable(NoId)])}
=============================================================================
