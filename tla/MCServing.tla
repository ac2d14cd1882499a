----------------------------- MODULE MCServing -----------------------------
(* The process with any of many files and one registry (Serving), and the  *)
(* responses it writes (Responses).  A behaviour looks at one of them:     *)
(* responses do not depend on what the process is at.                      *)
EXTENDS Serving, Responses

VARIABLE subject   \* what is looked at

-----------------------------------------------------------------------------

MCSlug == [name \in {"", "h", "raw", "A", "a!", "!!!"} |->
             CASE name \in {"A", "a!"} -> "a" [] name \in {"", "!!!"} -> "" [] OTHER -> name]

Good == [scheme |-> "https", host |-> "h", path |-> "", slash |-> TRUE, query |-> FALSE]
URLs == {NoURL, [NoURL EXCEPT !.path = "raw"], [Good EXCEPT !.scheme = "ftp"]}
        \cup {[Good EXCEPT !.path = path, !.slash = slash, !.query = query] :
                 path \in {"", "v2"}, slash, query \in BOOLEAN}

NoAuth == [type |-> Text(""), username |-> Text(""), password |-> Text(""),
           passwordEnv |-> Text(""), token |-> Text(""), tokenEnv |-> Text("")]
Auths == {NoAuth, [NoAuth EXCEPT !.type = Text("oauth2")]}
         \cup {[NoAuth EXCEPT !.type = Text("basic"), !.username = user, !.passwordEnv = Text(var)] :
                  user \in {Text(""), Text("u"), Reference("V", Unset), Reference("V", "")},
                  var \in {"", "V", "W"}}
         \cup {[NoAuth EXCEPT !.type = Text("bearer"), !.token = token, !.tokenEnv = Text(var)] :
                  token \in {Text(""), Text("t"), Reference("V", "t")}, var \in {"", "V", "W"}}

Entry(id, name, url, auth) == [id |-> Text(id), name |-> Text(name), url |-> url] @@ auth
File(default, registries) == [theme |-> Text(""), logLevel |-> Reference("W", "info"),
                              default |-> Text(default), registries |-> registries,
                              unknown |-> FALSE]

TheFile == File("", <<Entry("", "A", Good, NoAuth)>>)

\* One registry, of every kind; two that are told apart by id and name; faults
\* of the file itself.
MCDocuments ==
    {File("", <<Entry("a", "", url, auth)>>) : url \in URLs, auth \in Auths}
    \cup {File(default, <<Entry(i, m, Good, NoAuth), Entry(j, n, Good, NoAuth)>>) :
             i, j \in {"", "a", "b"}, m, n \in {"", "A", "a!", "!!!"},
             default \in {"", "a", "b"}}
    \cup {[TheFile EXCEPT !.theme = Text("neon")], [TheFile EXCEPT !.unknown = TRUE],
          [TheFile EXCEPT !.logLevel = Reference("V", Unset)], File("", <<>>)}
    \cup {TheFile}

MCEnvironments == {<<>>, [x \in {"V"} |-> "v"], [x \in {"V"} |-> ""]}

-----------------------------------------------------------------------------
\* Bound: one of the files is served.
MCInit == ServingInit /\ Init /\ subject \in {"process", "responses"}
MCNext ==
    /\ \/ /\ subject = "process"
          /\ ServingNext
          /\ stage' = "ready" => config.doc = TheFile /\ config.env = <<>>
          /\ UNCHANGED vars
       \/ subject = "responses" /\ Next /\ UNCHANGED servingVars
    /\ UNCHANGED subject
MCSpec == MCInit /\ [][MCNext]_<<servingVars, vars, subject>> /\ ServingFairness
=============================================================================
