--------------------------- MODULE MCAppLifecycle ---------------------------
(* The tests AppLifecycle is model-checked on. *)
EXTENDS AppLifecycle, TLC

none == "web" :> {} @@ "op" :> {} @@ "chart" :> {} @@ "other" :> {}

\* Two callers run the same application at the same time.
Shared == [keys |-> [c \in Callers |-> <<"web">>],
           specs |-> [none EXCEPT !["web"] = {"StatefulSet", "CustomResource"}],
           charts |-> none, namespace |-> [c \in Callers |-> NoNS],
           rules |-> {}, uninstalls |-> {}, wait |-> TRUE, leak |-> FALSE, tries |-> 2, faults |-> 1]

\* Two callers run applications of their own, one of them an operator.
Operator == [keys |-> "c1" :> <<"op", "web">> @@ "c2" :> <<"other">>,
             specs |-> [none EXCEPT !["op"] = {"CustomResourceDefinition", "CustomResource", "ServiceAccount"},
                                    !["web"] = {"PersistentVolumeClaim"}, !["other"] = {"Pod"}],
             charts |-> none, namespace |-> [c \in Callers |-> NoNS],
             rules |-> {}, uninstalls |-> {}, wait |-> TRUE, leak |-> FALSE, tries |-> 2, faults |-> 1]

\* One caller adds and uninstalls charts; one of them holds an object of a kind the
\* parser does not know.
Charts == [keys |-> "c1" :> <<"web">> @@ "c2" :> <<>>,
           specs |-> [none EXCEPT !["web"] = {"Service", "PersistentVolumeClaim", "ClusterPair"},
                                  !["chart"] = {"HelmRepo", "Rule"}, !["other"] = {"HelmRepo"}],
           charts |-> [none EXCEPT !["chart"] = {"Deployment", "Secret"},
                                   !["other"] = {"Service", "ReplicaSet"}],
           namespace |-> [c \in Callers |-> NoNS],
           rules |-> {"c1"}, uninstalls |-> {"c1"}, wait |-> FALSE, leak |-> TRUE,
           tries |-> 1, faults |-> 1]

\* Both callers put the application into the namespace their options name.
Together == [keys |-> [c \in Callers |-> <<"web">>],
             specs |-> [none EXCEPT !["web"] = {"StatefulSet", "ServiceAccount", "HelmRepo"}],
             charts |-> [none EXCEPT !["web"] = {"Deployment"}], namespace |-> [c \in Callers |-> <<"given">>],
             rules |-> {}, uninstalls |-> {}, wait |-> TRUE, leak |-> FALSE, tries |-> 2, faults |-> 1]

AllTests == {Shared, Operator, Charts, Together}
=============================================================================
