------------------------------ MODULE MCTypes ------------------------------
(***************************************************************************)
(* Every kind of type, built from a few types of every sort.               *)
(***************************************************************************)
EXTENDS Types

Def(name, kind, parameters, variants) ==
  [name |-> name, kind |-> kind, parameters |-> parameters, variants |-> variants]

I32 == Type("Int", "i32", <<>>)
I64 == Type("Int", "i64", <<>>)
U8  == Type("Uint", "u8", <<>>)
F32 == Type("Float", "f32", <<>>)
F64 == Type("Float", "f64", <<>>)
Var(kind)  == Type("Inferred", kind, <<>>)

MCAdts ==
  [unit   |-> Def("S", "StructStruct", <<>>, << <<>> >>),
   unit2  |-> Def("S", "StructStruct", <<>>, << <<>> >>),       \* of another module
   pair   |-> Def("P", "StructStruct", <<>>, << <<I32, U8>> >>),
   pair2  |-> Def("P", "StructStruct", <<>>, << <<I32, U8>> >>),
   flag   |-> Def("B", "StructStruct", <<>>, << <<Leaf("Bool")>> >>),
   enum   |-> Def("E", "Enum", <<>>, << <<>>, <<I32>> >>),
   ghost  |-> Def("G", "TupleStruct", <<"T">>, << <<>> >>),
   holder |-> Def("H", "StructStruct", <<>>, << <<Type("ADT", "ghost", <<I32>>)>> >>),
   list   |-> Def("L", "StructStruct", <<>>,
                  << <<I32, Type("Reference", "mut", <<Type("ADT", "list", <<>>)>>)>> >>),
   box    |-> Def("W", "TupleStruct", <<"T">>, << <<Param("T")>> >>)]

Scalars == {Leaf(k) : k \in {"Bool", "Char", "USize", "ISize", "Str", "Never"}}
             \cup {I32, I64, U8, F32, F64}
Variables == {Var(k) : k \in {"General", "Integral", "Float"}}
Odd == {Param("T"), Param("U"), Leaf("PlaceHolder"), Leaf("Dynamic"), Type("Dynamic", "bound", <<>>), Error,
        Type("Projection", "", <<I32>>)}
Structures == {Type("ADT", d, <<>>) : d \in {"unit", "unit2", "pair", "pair2", "flag", "enum", "holder", "list"}}
                \cup {Type("ADT", d, <<a>>) : d \in {"ghost", "box"}, a \in {I32, U8}}
Simple == Scalars \cup Variables \cup Odd \cup Structures

Few == {I32, U8, Leaf("Bool"), Leaf("Never"), F64, Var("General"), Var("Integral"), Var("Float"), Param("T")}
Mut == {"mut", "const"}
Unary(args) ==
  {Type(k, m, <<a>>) : k \in {"Reference", "RawPointer"}, m \in Mut, a \in args}
    \cup {Type("Array", c, <<a>>) : c \in {"2", "3"}, a \in args}
    \cup {Type("Slice", "", <<a>>) : a \in args}
    \cup {Type("Tuple", "", <<a>>) : a \in args}
Fewer == {I32, U8, Leaf("Bool"), Var("General"), Var("Integral")}
Binary(args) == {Type("Tuple", "", <<a, b>>) : a, b \in args}
Functions(args) ==
  {Type(k, "", <<a, b>>) : k \in {"Function", "FunctionPointer"}, a, b \in args}
   \cup {Type("Closure", c, <<Type("Tuple", "", <<a>>), b>>) : c \in {"c1", "c2"}, a, b \in args}

Built == Unary(Few) \cup Binary(Fewer) \cup Functions({I32, U8, Var("Integral")}) \cup {Type("Tuple", "", <<>>)}
Nested == Unary({Type("Slice", "", <<a>>) : a \in {I32, U8, Var("General"), Var("Float")}}
                 \cup {Type("Reference", m, <<a>>) : m \in Mut, a \in {I32, Var("General")}})

\* Where a variable meets a string or a function, and structures in a type.
Crossed == {Type("Function", "", <<a, b>>) : a, b \in {Var("General"), Leaf("Str"), Type("Function", "", <<I32>>)}}
Holding == {Type("Tuple", "", <<s>>) : s \in Structures}
MCTypesAll == Simple \cup Built \cup Nested \cup Crossed \cup Holding
=============================================================================
