SPECIFICATION Spec
CONSTANT Clients = {c1, c2}
INVARIANT DrainedOnReturn
