---- MODULE FormCodec ----
(***************************************************************************)
(* How the classes behind the panel's forms turn themselves into JSON and  *)
(* back (web/assets/js/model). A form starts with the values of the        *)
(* constructors; what a user leaves in it otherwise is an edit             *)
(* <<class, field, value>>, and a JSON document is a set of                *)
(* <<class, key, value>> for everything in it that is not the              *)
(* constructor's. A value is                                               *)
(*   set      something the constructor does not put there                 *)
(*   cleared  the constructor's value taken away                           *)
(*   blank    a list of headers with a header that has no name or value    *)
(*   twice    a list of headers with the same name twice                   *)
(***************************************************************************)
EXTENDS Naturals, FiniteSets

Same(S) == [f \in S |-> f]

\* A class with fields S. Its toJson writes field f under the key to[f], its
\* fromJson reads it from the key from[f]. The constructor gives the filled
\* fields something to clear, and gives it to the restored ones again when
\* they are read empty. The fields of lost are written in a form that fromJson
\* does not accept. headers become objects from names to lists, maps objects
\* from names to single values.
Fields(S) == [to |-> Same(S), from |-> Same(S), filled |-> {}, restored |-> {},
              lost |-> {}, headers |-> {}, maps |-> {}]

FieldsOf(c) == DOMAIN c.to

\* What a user can leave in field f of class c.
Inputs(c, f) ==
  IF f \in c.headers \cup c.maps
  THEN {"set", "blank", "twice"}
  ELSE {"set"} \cup (IF f \in c.filled THEN {"cleared"} ELSE {})

\* toV2Headers leaves a header without name or value out. A list keeps both
\* values of a name; an object of single values keeps the last.
Written(c, f, v) == IF v = "twice" /\ f \in c.maps THEN "set" ELSE v
IsWritten(c, f, v) == f \in FieldsOf(c) /\ v # "blank"

\* The constructor sees an absent or empty value and puts its own.
IsRead(c, f, v) == f \notin c.lost /\ ~(v = "cleared" /\ f \in c.restored)

\* toJson of the objects named by parts, fromJson of a document; classes gives
\* the class of each object.
ToJson(classes, parts, edits) ==
  {<<e[1], classes[e[1]].to[e[2]], Written(classes[e[1]], e[2], e[3])>> :
     e \in {x \in edits : x[1] \in parts /\ IsWritten(classes[x[1]], x[2], x[3])}}

FromJson(classes, json) ==
  UNION {{<<j[1], f, j[3]>> : f \in {g \in DOMAIN classes[j[1]].from :
                                       /\ classes[j[1]].from[g] = j[2]
                                       /\ IsRead(classes[j[1]], g, j[3])}} :
           j \in json}
====
