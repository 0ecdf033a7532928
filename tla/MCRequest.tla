------------------------------ MODULE MCRequest ------------------------------
(* Small instances of Request for TLC. *)
EXTENDS Request, TLC

CONSTANTS m, s, t, u

Page(main, first, second, third, kinds, behaviour) ==
    [script |-> (m :> main @@ s :> first @@ t :> second @@ u :> third),
     kind |-> kinds, client |-> behaviour]

Kinds(k1, k2, k3, k4) == (m :> k1 @@ s :> k2 @@ t :> k3 @@ u :> k4)

Clients == {"slow", "stops", "leaves"}

(* A page that includes two responses, the first of which includes another;  *)
(* one that includes files; a proxied page with an empty part; one that has  *)
(* data between two subrequests; the last of these when its upstream breaks  *)
(* off before the second of them, so that t is never asked for.              *)
Pages == {Page(<<s, Data, t, Data>>, <<u, Data>>, <<Data>>, <<Data>>,
               Kinds("page", "proxy", "proxy", "page"), b) : b \in Clients}
         \cup {Page(<<Data, s, t, Data>>, <<u, Data>>, <<Data>>, <<Data, Data>>,
                    Kinds("proxy", "page", "proxy", "file"), b) : b \in Clients}
         \cup {Page(<<s, t, u, Data>>, <<Data, Data>>, <<Data>>, <<>>,
                    Kinds("proxy", "file", "proxy", "page"), b) : b \in Clients}
         \cup {Page(<<Data, s, t, Data>>, <<Data, u>>, <<Data>>, <<>>,
                    Kinds("proxy", "proxy", "proxy", "page"), b) : b \in Clients}
         \cup {Page(<<s, t, Data>>, <<Data, Data>>, <<Data>>, <<>>,
                    Kinds("page", "file", "file", "page"), b) : b \in Clients}
         \cup {Page(<<s, Data, t, Data>>, <<Data>>, <<Data>>, <<>>,
                    Kinds("proxy", "proxy", "page", "page"), b) : b \in Clients}
         \cup {Page(<<s, Data>>, <<Data>>, <<>>, <<>>,
                    Kinds("proxy", "proxy", "page", "page"), b) : b \in Clients}
=============================================================================
