---------------------------- MODULE MCContainer ------------------------------
(* Instance of Container for TLC: a service that is a singleton, a helper    *)
(* made anew each time, a database behind a string token, and two classes of *)
(* a request, the session using the user.                                    *)
EXTENDS Wiring, TLC

CONSTANTS service, helper, db, key, session, user

AllTokens == {service, helper, db, key, session, user}

\* What each class is decorated with.  The string is no class.
M == INSTANCE Metadata
on(is, with) == [is |-> is, on |-> "class", with |-> with]
Provided == [t \in AllTokens |-> M!Decorated(
    CASE t = service -> <<on("Injectable", <<user, helper>>), on("Singleton", TRUE), on("Stateless", TRUE)>>
      [] t = helper  -> <<on("Injectable", <<key>>)>>
      [] t = db      -> <<on("Singleton", TRUE)>>
      [] t = session -> <<on("Injectable", <<user>>), on("RequestScoped", TRUE)>>
      [] t = user    -> <<on("Injectable", <<db>>), on("RequestScoped", TRUE)>>
      [] OTHER       -> <<>>)]

\* What the container reads of it, which the assumption confirms.
Scopes == [t \in AllTokens |-> IF t \in {session, user} THEN "request"
                               ELSE IF t \in {service, db} THEN "singleton" ELSE "transient"]
Injected == [t \in AllTokens |-> CASE t = service -> <<user, helper>>
                                   [] t = helper  -> <<key>>
                                   [] t = session -> <<user>>
                                   [] t = user    -> <<db>>
                                   [] OTHER       -> <<>>]
Undecorated == {db}

ASSUME AsDecorated ==
    /\ \A t \in AllTokens : /\ M!IsRequestScoped(Provided[t]) <=> Scopes[t] = "request"
                            /\ M!IsSingleton(Provided[t]) <=> Scopes[t] = "singleton"
    /\ Injected = [t \in AllTokens |-> M!GetInjectTokens(Provided[t])]
    /\ Undecorated = {t \in AllTokens \ {key} : ~M!Read(Provided[t], "injectable", FALSE)}

Distinct == [t \in AllTokens |-> t]

\* The session reads the user's name in its constructor.
Touched == [t \in AllTokens |-> IF t = session THEN <<user>> ELSE <<>>]

\* The key stands for the database; a factory of the database may ask for
\* the service, which closes a cycle.
Made == [t \in AllTokens |->
           CASE t = key -> {[uses |-> <<db>>, same |-> TRUE]}
             [] t = db -> {[uses |-> <<service>>, same |-> FALSE], [uses |-> <<>>, same |-> FALSE]}
             [] OTHER -> {}]

AtStartup == key :> [uses |-> <<db>>, same |-> TRUE]

=============================================================================
