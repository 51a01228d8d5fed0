------------------------------- MODULE LpcAst -------------------------------
(* The syntax tree the parser hands to the code generator, one constructor  *)
(* for each node of Ast.hpp.  A node is a tuple that starts with its kind.  *)
(* An absent child is None.                                                 *)
EXTENDS Sequences

CONSTANT None

StringLiteral(s) == <<"str", s>>
IntLiteral(n) == <<"int", n>>
FloatLiteral(text) == <<"float", text>>
NilLiteral == <<"nil">>
Symbol(name) == <<"symbol", name>>
VarRef(name) == <<"var", name>>

BinOps == {"Eq", "Neq", "Lt", "Lte", "Gt", "Gte", "Add", "Or", "And", "Sub", "Mul", "Div",
           "Mod", "BitAnd", "BitOr", "BitXor", "Shl", "Shr"}
Binary(op, l, r) == <<"bin", op, l, r>>
Comma(l, r) == <<"comma", l, r>>
UnaryOps == {"Not", "Neg", "BitNot"}
Unary(op, e) == <<"un", op, e>>
Ternary(c, a, b) == <<"tern", c, a, b>>

(* mode: "plain", "efun" for efun::f(), "parent" for ::f() and the inherit *)
(* it is qualified with, or None.  spread marks the arguments with "...".  *)
Call(f, args, spread, mode, qualifier) == <<"call", f, args, spread, mode, qualifier>>
CallOther(target, f, args, spread) == <<"callOther", target, f, args, spread>>

(* outs: a variable or an indexed target each. *)
Sscanf(target, format, outs) == <<"sscanf", target, format, outs>>
Catch(e) == <<"catch", e>>
TimeExpression(body) == <<"time", body>>

ClosureLiteral(f, args, forceEfun) == <<"closure", f, args, forceEfun>>
(* "(: e, e :)" with n parameters $1..$n and the values of its $(e)s. *)
InlineLambda(exprs, bound, n) == <<"lambda", exprs, bound, n>>
LambdaParam(i, isBound) == <<"param", i, isBound>>
AnonFunction(params, isVarargs, body) == <<"anon", params, isVarargs, body>>

(* op is "=" or the operator of a compound assignment. *)
Assign(name, op, e) == <<"assign", name, op, e>>
IncDec(op, prefix, name) == <<"incdec", op, prefix, name>>
IncDecIndex(op, prefix, target, i) == <<"incdecIndex", op, prefix, target, i>>
ArrayLiteral(es, spread) == <<"array", es, spread>>
(* An entry is a key and its values, one but for the wide mappings of LDMud. *)
MappingLiteral(entries) == <<"mapping", entries>>
NewClass(class, inits) == <<"new", class, inits>>
MemberName(m) == <<"member", m>>
TypeCast(class, e) == <<"cast", class, e>>
Index(target, i, fromEnd) == <<"index", target, i, fromEnd>>
(* The key of m[i, col] *)
Column(i, col) == <<"column", i, col>>
RangeExpr(target, i, iEnd, j, jEnd) == <<"range", target, i, iEnd, j, jEnd>>
IndexAssign(target, i, op, e) == <<"indexAssign", target, i, op, e>>

-----------------------------------------------------------------------------
ExprStmt(e) == <<"expr", e>>
Return(e) == <<"return", e>>
VarDecl(class, name, init) == <<"decl", class, name, init>>
AssignStmt(name, e) == <<"set", name, e>>
IndexAssignStmt(target, i, op, e) == <<"indexSet", target, i, op, e>>

(* A Block the parser builds as a convenience is no scope of its own. *)
Block(stmts, isRealScope) == <<"block", stmts, isRealScope>>
If(c, then, else) == <<"if", c, then, else>>
While(c, body) == <<"while", c, body>>
DoWhile(body, c) == <<"do", body, c>>
For(init, c, update, body) == <<"for", init, c, update, body>>
Break == <<"break">>
Continue == <<"continue">>
CaseLabel(low, high) == <<"case", low, high>>
DefaultLabel == <<"case", None, None>>
Switch(subject, body) == <<"switch", subject, body>>
(* A variable is <<name, declared here>>. *)
Foreach(key, value, collection, body) == <<"foreach", key, value, collection, body>>

-----------------------------------------------------------------------------
(* A prototype has no body. *)
Function(name, params, isVarargs, body) ==
    [name |-> name, params |-> params, isVarargs |-> isVarargs, body |-> body]
ObjectVar(name, isPrivate, init) == [name |-> name, isPrivate |-> isPrivate, init |-> init]
File(inherits, classes, vars, functions) ==
    [inherits |-> inherits, classes |-> classes, vars |-> vars, functions |-> functions]
=============================================================================
