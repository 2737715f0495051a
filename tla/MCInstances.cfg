SPECIFICATION InstanceSpec
CONSTANTS
  NSObject = NSObject
  TestBaseClass = TestBaseClass
  A = A
  B = B
  FSClass1 = FSClass1
  foo = foo
  Foo = Foo
  bad = bad
  v1 = v1
  o1 = o1
  o2 = o2
  Class = {NSObject, A, B, FSClass1}
  ObjCClass = {NSObject}
  ObjCChain <- MCObjCChain
  MaxAnonymous = 0
  AnonymousName <- MCNoName
  Prop = {foo, Foo}
  IllFormed = {}
  LowerFirst <- MCLowerFirst
  UpperFirst <- MCUpperFirst
  Value = {v1}
  MaxList = 1
  Nil = Nil
  NSNull = NSNull
  Obj = {o1}
  Unset = Unset
CONSTRAINTS MCInstancesSmall MCInOrder
VIEW MCInstancesView
INVARIANTS InstanceTypeOK GetterFindsStorage DictionaryWhenNeeded
PROPERTIES StoredIsStable OwnerStable
