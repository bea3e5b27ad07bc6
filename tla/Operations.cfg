SPECIFICATION OpSpec
CONSTANTS
    noop = noop
    virt = virt
    mock = mock
    exec1 = exec1
    exec2 = exec2
    exec3 = exec3
    exec4 = exec4
    tf1 = tf1
    tf3 = tf3
    cpu = cpu
    gpu = gpu
    Backends = {noop, virt}
    BuiltIn = {mock}
    VirtioPlugins = {virt}
    Ops = {exec1, exec2, exec3, exec4, tf1, tf3}
    OpTypes <- MCOpTypes
    Owner <- MCOwner
    TypeOf <- MCTypeOf
    PluginTypes = {cpu, gpu}
    TypesOf <- MCTypesOf
    OpsOf <- MCOpsOf
    MaxInitFailures = 1
    Threads = {t1, t2}
    MaxArgs = 4
    AppRegion = app
    Overlapping = {app}
    MinSamples = 1
    MaxSamples = 2
    NULL = NULL
SYMMETRY ThreadSymmetry
INVARIANTS
    DispatchInMemory
    OpListsAgree
    FiniMatchesInit
    SamplesTimed
    SamplesInBounds
PROPERTY LookupStable
\* plugins_shutdown is the end
CHECK_DEADLOCK FALSE
