-------------------------- MODULE SingletonPrograms --------------------------
(***************************************************************************)
(* Singletons and one-time initialization.  A caller of getInstance() uses *)
(* the object it gets: it reads the member that the constructor writes.    *)
(***************************************************************************)
EXTENDS ThreadCode

Construct == Store("object", "plain", 1)
Use       == Show(Load("object", "plain"))

\* What calls of getInstance() in several threads, or in main() alone, come to.
Singleton == [Program EXCEPT !.mem = [object |-> 0, instance |-> 0, flag |-> 0],
                             !.locks = {"myMutex", "once"}, !.once = {"object"}]

\* Four tasks with ten million calls each, there; here the first two call twice.
CalledByTasks(getInstance) ==
    [Singleton EXCEPT !.code = ForkJoin(<<>>, [t \in 1..3 |-> Times(IF t < 3 THEN 2 ELSE 1, getInstance)], <<>>),
                      !.prints = 2 :> {<<1, 1>>} @@ 3 :> {<<1, 1>>} @@ 4 :> {<<1>>}]

CalledByMain(getInstance) ==
    [Singleton EXCEPT !.code = <<Times(2, getInstance)>>, !.prints = 1 :> {<<1, 1>>}]

\* if (!instance) instance = new MySingleton
IfNull(order) == If("instance", "plain", {0}, <<Construct, Store("instance", order, 1)>>)

DoubleChecked(first, last) ==
    If("instance", first, {0},
       Guarded("myMutex", If("instance", "relaxed", {0}, <<Construct, Store("instance", last, 1)>>)))

acquireRelease == DoubleChecked("acquire", "release")

singletonAcquireRelease        == CalledByTasks(acquireRelease \o <<Use>>)
singletonSequentialConsistency == CalledByTasks(DoubleChecked("seq_cst", "seq_cst") \o <<Use>>)
singletonLock                  == CalledByTasks(Guarded("myMutex", IfNull("plain") \o <<Use>>))

initSingleton == <<Construct, Store("instance", "plain", 1)>>

CalledOnce == CallOnce("flag", initSingleton) \o <<Load("instance", "plain"), Use>>

singletonCallOnce       == CalledByTasks(CalledOnce)
singletonMultithreading == CalledByMain(CalledOnce)

\* A static local object.
StaticLocal == CallOnce("flag", <<Construct>>) \o <<Use>>

singletonMeyers          == CalledByTasks(StaticLocal)
singletonSingleThreaded  == CalledByMain(StaticLocal)
safeInitializationStatic == CalledByMain(StaticLocal)

\* For one thread.
singleton == CalledByMain(IfNull("plain") \o <<Use>>)

\* What is done once is the output.
safeInitializationCallOnce ==
    [Singleton EXCEPT !.code = ForkJoin(<<>>, Times(4, <<CallOnce("flag", <<Construct>>)>>), <<Use>>),
                      !.prints = 1 :> {<<1>>}]

\* safeInitializationStatic is the same here as singletonSingleThreaded.
SingletonCatalogue ==
    <<singletonAcquireRelease, singletonSequentialConsistency,
      singletonLock, singletonCallOnce, singletonMultithreading,
      singletonMeyers, singletonSingleThreaded, singleton,
      safeInitializationCallOnce>>
=============================================================================
